---- MODULE Spec2Model ----
(***************************************************************************)
(* Model of the git push workflow hooks of tommymorgan/claude-plugins:     *)
(*   hooks/pre_push_squash.py   (PreToolUse hook: squash WIP commits)      *)
(*   hooks/post-push-cleanup.py (PostToolUse hook: delete backup tags)     *)
(*                                                                         *)
(* Strings are sequences of one-character strings, so that prefix tests,   *)
(* splitting, replacement and the push-command patterns are computed the   *)
(* way the Python code computes them.                                      *)
(***************************************************************************)
EXTENDS Integers, Sequences, FiniteSets, TLC

(***************************************************************************)
(* String literals of the source                                           *)
(***************************************************************************)
S_GIT == <<"g", "i", "t">>
S_JJ == <<"j", "j">>
S_PUSH == <<"p", "u", "s", "h">>
S_WIP_SP == <<"W", "I", "P", ":", " ">>
S_WIP == <<"W", "I", "P", ":">>
S_AUTO ==
    <<"W", "I", "P", ":", " ", "a", "u", "t", "o", "-", "c", "o", "m", "m", "i", "t",
      " ", "u", "n", "s", "t", "a", "g", "e", "d", " ", "c", "h", "a", "n", "g", "e", "s">>
S_FEAT == <<"f", "e", "a", "t", ":", " ">>
S_DEFAULT_GOAL ==
    <<"C", "o", "m", "p", "l", "e", "t", "e", " ", "/", "t", "o", "m", "m", "y", "m",
      "o", "r", "g", "a", "n", ":", "w", "o", "r", "k", " ", "s", "e", "s", "s", "i",
      "o", "n">>
S_COMPLETED ==
    <<"C", "o", "m", "p", "l", "e", "t", "e", "d", " ", "s", "c", "e", "n", "a", "r",
      "i", "o", "s", ":">>
S_KEY == <<"K", "e", "y", " ", "c", "h", "a", "n", "g", "e", "s", ":", " ">>
S_SQUASHED == <<"S", "q", "u", "a", "s", "h", "e", "d", " ">>
S_WIP_COMMITS == <<" ", "W", "I", "P", " ", "c", "o", "m", "m", "i", "t", "s">>
\* The two attribution lines are fixed literals; each is kept as one symbol.
S_ATTR == <<"(Generated with Claude Code)">>
S_COAUTHOR == <<"(Co-Authored-By: Claude Sonnet 4.5)">>
NL == <<"\n">>
SP == <<" ">>

(***************************************************************************)
(* Python str helpers                                                      *)
(***************************************************************************)
\* str.startswith
StartsWith(s, p) ==
    /\ Len(p) <= Len(s)
    /\ SubSeq(s, 1, Len(p)) = p

\* index of the first occurrence of p in s at or after i, 0 if none (str.find + 1)
RECURSIVE FindFrom(_, _, _)
FindFrom(s, p, i) ==
    IF i + Len(p) - 1 > Len(s) THEN 0
    ELSE IF SubSeq(s, i, i + Len(p) - 1) = p THEN i
    ELSE FindFrom(s, p, i + 1)

\* p in s
Contains(s, p) == FindFrom(s, p, 1) # 0

\* s.replace(p, '', 1)
ReplaceFirst(s, p) ==
    LET i == FindFrom(s, p, 1)
    IN  IF i = 0 THEN s
        ELSE SubSeq(s, 1, i - 1) \o SubSeq(s, i + Len(p), Len(s))

\* s.replace(p, '')
RECURSIVE ReplaceAll(_, _)
ReplaceAll(s, p) ==
    LET i == FindFrom(s, p, 1)
    IN  IF i = 0 THEN s
        ELSE SubSeq(s, 1, i - 1) \o ReplaceAll(SubSeq(s, i + Len(p), Len(s)), p)

\* sep.join(parts)
RECURSIVE Join(_, _)
Join(parts, sep) ==
    IF parts = <<>> THEN <<>>
    ELSE IF Len(parts) = 1 THEN parts[1]
    ELSE parts[1] \o sep \o Join(Tail(parts), sep)

\* s.split(' ', 1)[1], for a string that holds a space
AfterFirstSpace(s) == SubSeq(s, FindFrom(s, SP, 1) + 1, Len(s))

\* str(n) for the small counts of the model
Digits == <<"0", "1", "2", "3", "4", "5", "6", "7", "8", "9">>
Str(n) == IF n < 10 THEN <<Digits[n + 1]>> ELSE <<Digits[(n \div 10) + 1], Digits[(n % 10) + 1]>>

(***************************************************************************)
(* Regular-expression character classes and the push patterns              *)
(***************************************************************************)
\* \s
IsSpace(c) == c \in {" ", "\t", "\n", "\r", "\f"}
\* \w
WordChars ==
    {"a", "b", "c", "d", "e", "f", "g", "h", "i", "j", "k", "l", "m", "n", "o", "p",
     "q", "r", "s", "t", "u", "v", "w", "x", "y", "z", "A", "B", "C", "D", "E", "F",
     "G", "H", "I", "J", "K", "L", "M", "N", "O", "P", "Q", "R", "S", "T", "U", "V",
     "W", "X", "Y", "Z", "0", "1", "2", "3", "4", "5", "6", "7", "8", "9", "_"}
\* the hyphen is left out of the argument class
IsArgCharNoHyphen(c) == c \in WordChars \cup {"/"}

\* [\w\-/]
IsArgChar(c) == c \in WordChars \cup {"-", "/"}

\* the literal lit stands in s at index i
MatchLit(s, i, lit) ==
    /\ i + Len(lit) - 1 <= Len(s)
    /\ SubSeq(s, i, i + Len(lit) - 1) = lit

\* index after the longest run of \s starting at i
RECURSIVE SkipSpaces(_, _)
SkipSpaces(s, i) ==
    IF i <= Len(s) /\ IsSpace(s[i]) THEN SkipSpaces(s, i + 1) ELSE i

\* index after the longest run of [\w\-/] starting at i
RECURSIVE SkipArg(_, _)
SkipArg(s, i) ==
    IF i <= Len(s) /\ IsArgChar(s[i]) THEN SkipArg(s, i + 1) ELSE i

\* $ : the end of the string, or just before a newline that ends the string
AtEnd(s, i) ==
    \/ i = Len(s) + 1
    \/ i = Len(s) /\ s[i] = "\n"

\* (\s+[\w\-/]+)*$ from index i
RECURSIVE ArgsTail(_, _)
ArgsTail(s, i) ==
    \/ AtEnd(s, i)
    \/ /\ i <= Len(s)
       /\ IsSpace(s[i])
       /\ LET j == SkipSpaces(s, i)
          IN  /\ j <= Len(s)
              /\ IsArgChar(s[j])
              /\ ArgsTail(s, SkipArg(s, j))

\* lit \s+ from index i: the index after it, 0 if it does not match
LitSpaces(s, i, lit) ==
    IF MatchLit(s, i, lit) /\ i + Len(lit) <= Len(s) /\ IsSpace(s[i + Len(lit)])
    THEN SkipSpaces(s, i + Len(lit))
    ELSE 0

\* ^git\s+push : the index after the prefix, 0 if it does not match
GitPushPrefix(s) ==
    LET j == LitSpaces(s, 1, S_GIT)
    IN  IF j # 0 /\ MatchLit(s, j, S_PUSH) THEN j + Len(S_PUSH) ELSE 0

\* ^jj\s+git\s+push : the index after the prefix, 0 if it does not match
JjGitPushPrefix(s) ==
    LET j == LitSpaces(s, 1, S_JJ)
        k == IF j = 0 THEN 0 ELSE LitSpaces(s, j, S_GIT)
    IN  IF k # 0 /\ MatchLit(s, k, S_PUSH) THEN k + Len(S_PUSH) ELSE 0

\* SAFE_PUSH_PATTERNS, each applied with re.match
SafePatternMatches(s) ==
    \/ GitPushPrefix(s) # 0 /\ ArgsTail(s, GitPushPrefix(s))
    \/ JjGitPushPrefix(s) # 0 /\ ArgsTail(s, JjGitPushPrefix(s))

\* only the prefix is matched, as post-push-cleanup does
prefix_is_push_command(command) ==
    GitPushPrefix(command) # 0 \/ JjGitPushPrefix(command) # 0

\* pre_push_squash.is_push_command
is_push_command(command) == SafePatternMatches(command)

\* post-push-cleanup.is_push_command
cleanup_is_push_command(command) ==
    GitPushPrefix(command) # 0 \/ JjGitPushPrefix(command) # 0

\* pre_push_squash.has_wip_commits, over the lines of rev-list --oneline
has_wip_commits(commits) ==
    \E k \in 1..Len(commits) :
        /\ Contains(commits[k], SP)
        /\ LET message == AfterFirstSpace(commits[k])
           IN  StartsWith(message, S_WIP_SP) \/ StartsWith(message, S_WIP)

(***************************************************************************)
(* Bounds of the model                                                     *)
(***************************************************************************)
\* longest list of unpushed commits a run starts with
MaxCommits == 2
\* signals delivered to one run
MaxSignals == 1
\* hook runs in one behaviour of SpecSeq
MaxRuns == 2
\* the clock of SpecSeq stops here, and advances by this many seconds at a time
MaxClock == 300
TickSeconds == 150
\* pieces appended to a command head in SpecClassify
MaxTokens == 2
\* calls of log_execution in one behaviour of SpecLog
MaxLogCalls == 3
\* TODO markers, and DONE markers, in a plan file of SpecStop
MaxMarkers == 2
\* image blocks in the last transcript entry of SpecResize
MaxImages == 2
\* plan files in plans/, and the largest batch_size, of SpecMigrate
MaxPlans == 3
MaxBatch == 3

\* post-push-cleanup.py: "if current_time - tag_timestamp < 300"
RECENT_SECONDS == 300

(***************************************************************************)
(* Values                                                                  *)
(***************************************************************************)
NoTag == [sha |-> <<>>, ts |-> -1]
NoPlan == [found |-> FALSE, exists |-> FALSE, goal |-> <<>>, done |-> <<>>]
NoDecision == [decision |-> "none", reason |-> "none", tag |-> NoTag]
NoCall == <<"none", "ok">>
\* no prompt is returning
NoPrompt == [asked |-> FALSE, tty |-> FALSE, line |-> <<>>]

\* commit subjects the unpushed commits are drawn from
M_WIP_A == S_WIP_SP \o <<"a">>
M_WIPB == S_WIP \o <<"b">>
M_C == <<"c">>
Messages == {M_WIP_A, M_WIPB, M_C}

RECURSIVE SeqsUpTo(_, _)
SeqsUpTo(S, n) ==
    IF n = 0 THEN {<<>>}
    ELSE LET shorter == SeqsUpTo(S, n - 1)
         IN  shorter \cup {<<m>> \o h : m \in S, h \in {g \in shorter : Len(g) = n - 1}}

\* lists of unpushed commits (origin/main..HEAD), newest first
Histories == SeqsUpTo(Messages, MaxCommits)

Branches == {"main", "master", "feature"}

\* command strings handed to the hook
CMD_PUSH == S_GIT \o SP \o S_PUSH
CMD_PUSH_ORIGIN == CMD_PUSH \o SP \o <<"o">> \o SP \o <<"m">>
CMD_JJ_PUSH == S_JJ \o SP \o S_GIT \o SP \o S_PUSH
CMD_INJECT == CMD_PUSH \o <<";", " ", "r", "m">>
CMD_STATUS == S_GIT \o SP \o <<"s", "t", "a", "t", "u", "s">>
Commands == {CMD_PUSH, CMD_PUSH_ORIGIN, CMD_JJ_PUSH, CMD_INJECT, CMD_STATUS}

\* what the hook reads on standard input
HookInputs ==
    {[kind |-> "malformed", command |-> <<>>], [kind |-> "not_object", command |-> <<>>]}
        \cup {[kind |-> "object", command |-> c] : c \in Commands}

\* plan files found in the commit range
\* (goal <<>>: the file has no **Goal** line; exists FALSE: the range deleted the file)
PLAN_GOAL == [found |-> TRUE, exists |-> TRUE, goal |-> <<"G">>, done |-> << <<"s">> >>]
Plans == {PLAN_GOAL}

\* lines typed at a confirmation prompt
Responses ==
    {<<>>, <<"\n">>, <<"y", "\n">>, <<" ", "Y", "E", "S", "\n">>, <<"n", "\n">>,
     <<"y", "e", "s", "!", "\n">>}

VARIABLES
    \* the repository
    branch,             \* git branch --show-current
    history,            \* subjects of the commits in origin/main..HEAD, newest first
    dirty,              \* the working tree differs from the index
    staged,             \* the index differs from HEAD
    tags,               \* the backup/pre-squash-* tags
    clock,              \* int(time.time())
    \* the input of the run
    git_installed, hook_input,
    response,           \* get_user_confirmation's read of /dev/tty, while it returns
    \* main's position and locals
    pc, commits, wip_count, auto_staged, plan_file, commit_message, backup_tag,
    tag_name,           \* create_backup_tag's local
    \* the module's globals
    interrupted, backup_tag_global,
    \* the outcome of the latest git subprocess: <<command, "ok" | "fail" | "timeout">>
    last,
    \* what the process has written and how it ended
    pending, stdout, exit_code, log,
    \* the run's record: workflow steps taken, mutating git commands that succeeded,
    \* answers given at the prompts, signals delivered, the commits the run began with
    steps, ops, answers, signals, history0,
    \* the tool calls of SpecSeq: runs so far, the exit code of the command, and
    \* the backup tag of a run that ended in a denial with its soft reset done and
    \* not rolled back, while the repository is as that run left it
    runs, tool_exit, squash_left,
    \* log_execution: the log directory (0 the live log, i the backup .log.i)
    \* and the number of calls so far, which is also the time of the last one
    log_dir, log_time,
    \* stop_if_incomplete.py: what the hook finds, and what it answered
    stop_world, stop_result,
    \* resize_images.py: the image blocks of the last transcript entry, and
    \* what the hook did with them
    transcript, resize_result,
    \* migrate.py: the sorted plan files, the batch size, the position of
    \* migrate_project_with_progress, and the calls of progress_callback
    plan_files, batch_size, migration, progress

repoVars == <<branch, history, dirty, staged, tags, clock>>
inputVars == <<git_installed, hook_input, response>>
localVars ==
    <<commits, wip_count, auto_staged, plan_file, commit_message, backup_tag, tag_name>>
globalVars == <<interrupted, backup_tag_global>>
outVars == <<pending, stdout, exit_code, log>>
recVars == <<steps, ops, answers, signals, history0>>
seqVars == <<runs, tool_exit, squash_left>>
hookVars ==
    <<repoVars, inputVars, pc, localVars, globalVars, last, outVars, recVars, seqVars>>
\* the state of the other programs of the repository
toolVars ==
    <<log_dir, log_time, stop_world, stop_result, transcript, resize_result,
      plan_files, batch_size, migration, progress>>
vars == <<hookVars, toolVars>>

(***************************************************************************)
(* Programs at rest                                                        *)
(***************************************************************************)
\* resize_images.py: the longest side an image may have
MAX_DIMENSION == 2000
\* pre_push_squash.py: the size above which the live log is rotated, and the
\* number of backups kept
\* 10 * 1024 * 1024
LOG_MAX_SIZE == 10485760
LOG_MAX_BACKUPS == 5
\* a name of the log directory no file has
NoFile == [size |-> -1, mtime |-> -1]
\* the names of the log directory: 0 the live log, i the backup .log.i; one
\* name past the last backup the code writes, so that a file there would show
LogNames == 0..(LOG_MAX_BACKUPS + 1)

\* the programs named in P have not been started: no run of the pre-push
\* hook is in progress, the log directory is empty, the stop hook and the
\* resize hook have read and written nothing, no migration is under way
AtRest(P) ==
    /\ IF "hook" \in P
       THEN /\ branch = "feature"
            /\ history = <<>>
            /\ dirty = FALSE
            /\ staged = FALSE
            /\ tags = {}
            /\ clock = 0
            /\ git_installed = TRUE
            /\ hook_input = [kind |-> "object", command |-> CMD_STATUS]
            /\ response = NoPrompt
            /\ pc = "idle"
            /\ commits = <<>>
            /\ wip_count = 0
            /\ auto_staged = FALSE
            /\ plan_file = NoPlan
            /\ commit_message = <<>>
            /\ backup_tag = NoTag
            /\ tag_name = NoTag
            /\ interrupted = FALSE
            /\ backup_tag_global = NoTag
            /\ last = NoCall
            /\ pending = NoDecision
            /\ stdout = <<>>
            /\ exit_code = -1
            /\ log = <<>>
            /\ steps = <<>>
            /\ ops = <<>>
            /\ answers = <<>>
            /\ signals = 0
            /\ history0 = <<>>
            /\ runs = 1
            /\ tool_exit = -1
            /\ squash_left = NoTag
       ELSE TRUE
    /\ IF "log" \in P
       THEN /\ log_dir = [i \in LogNames |-> NoFile]
            /\ log_time = 0
       ELSE TRUE
    /\ IF "stop" \in P
       THEN /\ stop_world = [level |-> -1, headers |-> FALSE, todo |-> 0, done |-> 0,
                             readable |-> FALSE, override |-> FALSE]
            /\ stop_result =
                    [via |-> "none", completion |-> -1, decision |-> "none",
                     stderr |-> <<>>]
       ELSE TRUE
    /\ IF "resize" \in P
       THEN /\ transcript = [auto_resize_images |-> TRUE, content |-> <<>>]
            /\ resize_result =
                    [exit |-> -1, decision |-> "none", sizes |-> <<>>, stdout |-> <<>>]
       ELSE TRUE
    /\ IF "migrate" \in P
       THEN /\ plan_files = <<>>
            /\ batch_size = 1
            /\ migration =
                    [pc |-> "idle", has_callback |-> FALSE, i |-> 0, batch_num |-> 0,
                     k |-> 0, successes |-> 0, failures |-> 0, errors |-> <<>>,
                     processed |-> <<>>]
            /\ progress = <<>>
       ELSE TRUE

(***************************************************************************)
(* Output and termination                                                  *)
(***************************************************************************)
AllowDecision == [decision |-> "allow", reason |-> "none", tag |-> NoTag]
\* a denial; tag is the backup tag its reason text names (NoTag: none)
DenyDecision(reason, tag) == [decision |-> "deny", reason |-> reason, tag |-> tag]

\* log_execution(result) followed by allow_command() / deny_command(reason):
\* the decision is ready to be printed
LogAndEmit(result, d) ==
    /\ log' = Append(log, result)
    /\ pending' = d
    /\ pc' = "print"
    /\ UNCHANGED <<stdout, exit_code>>

\* deny_command(reason) with no log entry before it
Emit(d) ==
    /\ log' = log
    /\ pending' = d
    /\ pc' = "print"
    /\ UNCHANGED <<stdout, exit_code>>

\* the reason of the top-level handler, f"Hook error: {e}": str(e) of a
\* CalledProcessError quotes the command line, so it names the tag argTag if the
\* failing command had the tag among its arguments
HookErrorDecision(argTag) == DenyDecision("hook_error", argTag)

\* the exception is not caught: a traceback, exit status 1, no decision
RaiseUncaught(argTag) ==
    /\ log' = log
    /\ pending' = pending
    /\ stdout' = stdout
    /\ exit_code' = 1
    /\ pc' = "done"

\* except Exception as e: log_execution("error"); deny_command(f"Hook error: {e}")
Raise(argTag) == LogAndEmit("error", HookErrorDecision(argTag))

\* a step of main is taken: record it
Step(name) == steps' = Append(steps, name)
\* a mutating git command succeeded: record it
Did(cmd) == ops' = Append(ops, cmd)

(***************************************************************************)
(* Initial states: a repository, an input, main about to start             *)
(***************************************************************************)
RunStart ==
    /\ pc = "validate_dependencies"
    /\ commits = <<>>
    /\ wip_count = 0
    /\ auto_staged = FALSE
    /\ plan_file = NoPlan
    /\ commit_message = <<>>
    /\ backup_tag = NoTag
    /\ tag_name = NoTag
    /\ interrupted = FALSE
    /\ backup_tag_global = NoTag
    /\ last = NoCall
    /\ pending = NoDecision
    /\ stdout = <<>>
    /\ exit_code = -1
    /\ log = <<>>
    /\ steps = <<>>
    /\ ops = <<>>
    /\ answers = <<>>
    /\ signals = 0
    /\ history0 = history
    /\ response = NoPrompt

Init ==
    /\ AtRest({"log", "stop", "resize", "migrate"})
    /\ branch \in Branches
    /\ history \in Histories
    /\ dirty \in BOOLEAN
    /\ staged \in BOOLEAN
    /\ tags = {}
    /\ clock = 0
    /\ git_installed \in BOOLEAN
    /\ hook_input \in HookInputs
    /\ runs = 1
    /\ tool_exit = -1
    /\ squash_left = NoTag
    /\ RunStart

(***************************************************************************)
(* main, lines 404-457: up to the single-commit path                       *)
(***************************************************************************)
\* validate_dependencies(): git --version
validate_dependencies ==
    /\ pc = "validate_dependencies"
    /\ IF git_installed
       THEN /\ pc' = "read_input"
            /\ UNCHANGED outVars
       ELSE Emit(DenyDecision("git_not_found", NoTag))
    /\ UNCHANGED <<repoVars, inputVars, localVars, globalVars, last, recVars, seqVars>>
    /\ UNCHANGED toolVars

\* json.loads(sys.stdin.read()) and hook_input.get("tool_input", {}).get("command", "")
read_input ==
    /\ pc = "read_input"
    /\ CASE hook_input.kind = "malformed" ->
                Emit(DenyDecision("parse_error", NoTag))
         [] hook_input.kind = "not_object" ->
                \* .get on a value that is no dict: AttributeError, caught at the top
                Raise(NoTag)
         [] OTHER ->
                /\ pc' = "classify"
                /\ UNCHANGED outVars
    /\ UNCHANGED <<repoVars, inputVars, localVars, globalVars, last, recVars, seqVars>>
    /\ UNCHANGED toolVars

\* if not is_push_command(command): allow
classify ==
    /\ pc = "classify"
    /\ Step("classify")
    /\ IF is_push_command(hook_input.command)
       THEN /\ pc' = "get_current_branch"
            /\ UNCHANGED outVars
       ELSE LogAndEmit("allow_non_push", AllowDecision)
    /\ UNCHANGED <<repoVars, inputVars, localVars, globalVars, last, ops, answers,
                   signals, history0, seqVars>>
    /\ UNCHANGED toolVars

\* a feature branch is left alone: the wrong list lets the hook rewrite it
AnyBranchIsProtected(b) == b \in {"main", "master", "feature"}

\* branch in ['main', 'master']
IsProtectedBranch(b) == b \in {"main", "master"}

\* branch = get_current_branch(); if branch not in ['main', 'master']: allow
get_current_branch ==
    /\ pc = "get_current_branch"
    /\ Step("branch")
    /\ \E out \in {"ok", "fail"} :
        /\ last' = <<"branch", out>>
        /\ IF out = "fail" THEN Raise(NoTag)
           ELSE IF ~IsProtectedBranch(branch)
           THEN LogAndEmit("allow_feature_branch", AllowDecision)
           ELSE /\ pc' = "fetch"
                /\ UNCHANGED outVars
    /\ UNCHANGED <<repoVars, inputVars, localVars, globalVars, ops, answers, signals,
                   history0, seqVars>>
    /\ UNCHANGED toolVars

\* the subject of a commit message: its first line
Subject(msg) ==
    LET i == FindFrom(msg, NL, 1)
    IN  IF i = 0 THEN msg ELSE SubSeq(msg, 1, i - 1)

\* the lines of git rev-list origin/main..HEAD --oneline: short hash, space, subject
Oneline(h) == [k \in 1..Len(h) |-> <<"h">> \o SP \o Subject(h[k])]

\* get_commits_to_push(), first call: git fetch origin
fetch ==
    /\ pc = "fetch"
    /\ Step("fetch")
    /\ \E out \in {"ok", "fail", "timeout"} :
        /\ last' = <<"fetch", out>>
        /\ CASE out = "timeout" ->
                    /\ Emit(DenyDecision("fetch_timeout", NoTag))
                    /\ UNCHANGED commits
             [] out = "fail" ->
                    \* except CalledProcessError: return []; then "if not commits"
                    /\ commits' = <<>>
                    /\ LogAndEmit("allow_no_commits", AllowDecision)
             [] OTHER ->
                    /\ pc' = "rev_list"
                    /\ UNCHANGED <<commits, outVars>>
    /\ UNCHANGED <<repoVars, inputVars, wip_count, auto_staged, plan_file,
                   commit_message, backup_tag, tag_name, globalVars, ops, answers,
                   signals, history0, seqVars>>
    /\ UNCHANGED toolVars

\* get_commits_to_push(), second call: git rev-list; then "if not commits: allow"
rev_list ==
    /\ pc = "rev_list"
    /\ Step("commit_list")
    /\ \E out \in {"ok", "fail", "timeout"} :
        /\ last' = <<"rev-list", out>>
        /\ CASE out = "timeout" ->
                    /\ Emit(DenyDecision("fetch_timeout", NoTag))
                    /\ UNCHANGED commits
             [] out = "fail" ->
                    /\ commits' = <<>>
                    /\ LogAndEmit("allow_no_commits", AllowDecision)
             [] OTHER ->
                    /\ commits' = Oneline(history)
                    /\ IF history = <<>>
                       THEN LogAndEmit("allow_no_commits", AllowDecision)
                       ELSE /\ pc' = "check_wip"
                            /\ UNCHANGED outVars
    /\ UNCHANGED <<repoVars, inputVars, wip_count, auto_staged, plan_file,
                   commit_message, backup_tag, tag_name, globalVars, ops, answers,
                   signals, history0, seqVars>>
    /\ UNCHANGED toolVars

\* if not has_wip_commits(commits): allow;  wip_count = len(commits)
check_wip ==
    /\ pc = "check_wip"
    /\ Step("wip_scan")
    /\ IF ~has_wip_commits(commits)
       THEN /\ LogAndEmit("allow_no_wip", AllowDecision)
            /\ UNCHANGED wip_count
       ELSE /\ wip_count' = Len(commits)
            /\ pc' = IF Len(commits) = 1 THEN "single_wip" ELSE "has_merge_conflicts"
            /\ UNCHANGED outVars
    /\ UNCHANGED <<repoVars, inputVars, commits, auto_staged, plan_file, commit_message,
                   backup_tag, tag_name, globalVars, last, ops, answers, signals,
                   history0, seqVars>>
    /\ UNCHANGED toolVars

\* the prefix is cut without the space that follows it
StripWipNoSpace(commit_msg) == ReplaceFirst(commit_msg, S_WIP)

\* the new message of the single commit: the first 'WIP: ' removed
StripWipPrefix(commit_msg) == ReplaceFirst(commit_msg, S_WIP_SP)

\* if wip_count == 1: git log -n 1 HEAD; strip the prefix by commit --amend; allow
single_wip ==
    /\ pc = "single_wip"
    /\ \E out \in {"ok", "fail"} :
        /\ last' = <<"log", out>>
        /\ IF out = "fail"
           THEN /\ Raise(NoTag)
           ELSE IF StartsWith(history[1], S_WIP_SP)
           THEN /\ pc' = "single_amend"
                /\ UNCHANGED outVars
           ELSE LogAndEmit("allow_single_wip", AllowDecision)
    /\ UNCHANGED <<repoVars, inputVars, localVars, globalVars, recVars, seqVars>>
    /\ UNCHANGED toolVars

\* run_git(['commit', '--amend', '-m', new_msg]); allow
single_amend ==
    /\ pc = "single_amend"
    /\ \E out \in {"ok", "fail"} :
        /\ last' = <<"amend", out>>
        /\ IF out = "fail"
           THEN /\ Raise(NoTag)
                /\ UNCHANGED <<history, staged, ops>>
           ELSE /\ history' = <<StripWipPrefix(history[1])>> \o Tail(history)
                /\ staged' = FALSE
                /\ Did("amend")
                /\ LogAndEmit("allow_single_wip", AllowDecision)
    /\ UNCHANGED <<branch, dirty, tags, clock, inputVars, localVars, globalVars, steps,
                   answers, signals, history0, seqVars>>
    /\ UNCHANGED toolVars

(***************************************************************************)
(* main, lines 459-487: conflicts, auto-commit, message, first prompt      *)
(***************************************************************************)
\* a merge-tree that timed out is taken for a clean merge
merge_conflicts_timeout_open(out) == out = "conflict"

\* has_merge_conflicts() by what git merge-tree did: check=False, so a failing
\* merge-tree raises nothing and its standard output is scanned like any other
merge_conflicts_found(out) ==
    CASE out = "timeout" -> TRUE
      [] out = "conflict" -> TRUE
      [] out = "clean" -> FALSE
      [] out = "error" -> FALSE

MergeTreeOutcomes == {"clean", "conflict", "error", "timeout"}

\* if has_merge_conflicts(): deny
has_merge_conflicts ==
    /\ pc = "has_merge_conflicts"
    /\ Step("conflict_check")
    /\ \E out \in MergeTreeOutcomes :
        /\ last' = <<"merge-tree", IF out \in {"clean", "conflict"} THEN "ok" ELSE out>>
        /\ IF merge_conflicts_found(out)
           THEN LogAndEmit("deny_conflicts", DenyDecision("merge_conflicts", NoTag))
           ELSE /\ pc' = "has_unstaged_changes"
                /\ UNCHANGED outVars
    /\ UNCHANGED <<repoVars, inputVars, localVars, globalVars, ops, answers, signals,
                   history0, seqVars>>
    /\ UNCHANGED toolVars

\* a failing diff is taken for a clean tree
unstaged_changes_fail_open(out, differs) ==
    CASE out = "timeout" -> FALSE
      [] out = "error" -> FALSE
      [] OTHER -> differs

\* has_unstaged_changes() by what the two git diff --quiet calls did
\* (git diff --quiet exits 1 on a difference: CalledProcessError is "dirty")
unstaged_changes_found(out, differs) ==
    CASE out = "timeout" -> FALSE
      [] out = "error" -> TRUE
      [] OTHER -> differs

\* if interrupted: deny;  if has_unstaged_changes(): auto_commit_unstaged()
has_unstaged_changes ==
    /\ pc = "has_unstaged_changes"
    /\ IF interrupted
       THEN /\ LogAndEmit("deny_interrupted", DenyDecision("interrupted_by_user", NoTag))
            /\ UNCHANGED last
       ELSE \E out \in {"ok", "error", "timeout"} :
            /\ last' = <<"diff", out>>
            /\ pc' = IF unstaged_changes_found(out, dirty \/ staged)
                     THEN "auto_add" ELSE "find_plan_file"
            /\ UNCHANGED outVars
    /\ UNCHANGED <<repoVars, inputVars, localVars, globalVars, recVars, seqVars>>
    /\ UNCHANGED toolVars

\* auto_commit_unstaged(): git add -A
auto_add ==
    /\ pc = "auto_add"
    /\ Step("auto_commit")
    /\ \E out \in {"ok", "fail"} :
        /\ last' = <<"add", out>>
        /\ IF out = "fail"
           THEN /\ Raise(NoTag)
                /\ UNCHANGED <<dirty, staged, ops>>
           ELSE /\ staged' = (staged \/ dirty)
                /\ dirty' = FALSE
                /\ Did("add")
                /\ pc' = "auto_commit"
                /\ UNCHANGED outVars
    /\ UNCHANGED <<branch, history, tags, clock, inputVars, localVars, globalVars,
                   answers, signals, history0, seqVars>>
    /\ UNCHANGED toolVars

\* auto_commit_unstaged(): git commit -m 'WIP: auto-commit unstaged changes';
\* auto_staged = True; wip_count += 1.  With nothing staged git commit exits 1.
auto_commit ==
    /\ pc = "auto_commit"
    /\ \E out \in {"ok", "fail"} :
        /\ last' = <<"commit", IF staged THEN out ELSE "fail">>
        /\ IF out = "fail" \/ ~staged
           THEN /\ Raise(NoTag)
                /\ UNCHANGED <<history, staged, ops, auto_staged, wip_count>>
           ELSE /\ history' = <<S_AUTO>> \o history
                /\ staged' = FALSE
                /\ Did("commit")
                /\ auto_staged' = TRUE
                /\ wip_count' = wip_count + 1
                /\ pc' = "find_plan_file"
                /\ UNCHANGED outVars
    /\ UNCHANGED <<branch, dirty, tags, clock, inputVars, commits, plan_file,
                   commit_message, backup_tag, tag_name, globalVars, steps, answers,
                   signals, history0, seqVars>>
    /\ UNCHANGED toolVars

\* plan_file = find_plan_file(): git diff --name-only; None when it fails
find_plan_file ==
    /\ pc = "find_plan_file"
    /\ \E out \in {"ok", "fail", "timeout"}, found \in Plans \cup {NoPlan} :
        /\ out # "ok" => found = NoPlan
        /\ last' = <<"diff-names", out>>
        /\ plan_file' = found
    /\ pc' = "generate_commit_message"
    /\ UNCHANGED <<repoVars, inputVars, commits, wip_count, auto_staged, commit_message,
                   backup_tag, tag_name, globalVars, outVars, recVars, seqVars>>
    /\ UNCHANGED toolVars

\* files listed by git diff --stat origin/main HEAD
DiffFileLists == {<< <<"f">> >>}
S_FILES_CHANGED == <<" ", "f", "i", "l", "e", "s", " ", "c", "h", "a", "n", "g", "e", "d">>
S_NO_CHANGES == <<"N", "o", " ", "f", "i", "l", "e", " ", "c", "h", "a", "n", "g", "e", "s">>
S_UNABLE ==
    <<"U", "n", "a", "b", "l", "e", " ", "t", "o", " ", "a", "n", "a", "l", "y", "z", "e",
      " ", "d", "i", "f", "f">>

\* analyze_diff()
analyze_diff(out, files_changed) ==
    IF out # "ok" THEN S_UNABLE
    ELSE IF files_changed = <<>> THEN S_NO_CHANGES
    ELSE Str(Len(files_changed)) \o S_FILES_CHANGED
         \o (IF Len(files_changed) <= 3
             THEN <<":", " ">> \o Join(files_changed, <<",", " ">>)
             ELSE <<>>)

\* the plan-file message without its squash line
PlanMessageNoCount(plan, diff_summary, count) ==
    LET goal == IF plan.goal = <<>> THEN S_DEFAULT_GOAL ELSE plan.goal
    IN  Join(<<goal, <<>>, S_KEY \o diff_summary, <<>>, S_ATTR, <<>>, S_COAUTHOR>>, NL)

\* generate_commit_message(), the plan-file branch
PlanMessage(plan, diff_summary, count) ==
    LET goal == IF plan.goal = <<>> THEN S_DEFAULT_GOAL ELSE plan.goal
        completed ==
            IF plan.done = <<>> THEN <<>>
            ELSE <<S_COMPLETED>>
                 \o [k \in 1..Len(plan.done) |-> <<"-", " ">> \o plan.done[k]]
                 \o << <<>> >>
        parts ==
            <<goal, <<>> >> \o completed
            \o <<S_KEY \o diff_summary, <<>>,
                 S_SQUASHED \o Str(count) \o S_WIP_COMMITS, <<>>,
                 S_ATTR, <<>>, S_COAUTHOR>>
    IN  Join(parts, NL)

\* generate_commit_message(), the fallback: the subjects of origin/main..HEAD
\* with every 'WIP: ' removed, joined by newlines, under "feat: "
FallbackMessage(h) ==
    LET messages == SelectSeq([k \in 1..Len(h) |-> Subject(h[k])], LAMBDA m : m # <<>>)
        stripped == [k \in 1..Len(messages) |-> ReplaceAll(messages[k], S_WIP_SP)]
    IN  S_FEAT \o Join(stripped, NL) \o NL \o NL \o S_ATTR \o NL \o NL \o S_COAUTHOR

\* commit_message = generate_commit_message(plan_file, wip_count)
generate_commit_message ==
    /\ pc = "generate_commit_message"
    /\ IF plan_file.found /\ plan_file.exists
       THEN \E out \in {"ok", "fail", "timeout"}, files \in DiffFileLists :
            /\ last' = <<"diff-stat", out>>
            /\ commit_message' = PlanMessage(plan_file, analyze_diff(out, files), wip_count)
            /\ pc' = "confirm_squash"
            /\ UNCHANGED outVars
       ELSE \E out \in {"ok", "fail"} :
            /\ last' = <<"log", out>>
            /\ IF out = "fail"
               THEN /\ Raise(NoTag)
                    /\ UNCHANGED commit_message
               ELSE /\ commit_message' = FallbackMessage(history)
                    /\ pc' = "confirm_squash"
                    /\ UNCHANGED outVars
    /\ UNCHANGED <<repoVars, inputVars, commits, wip_count, auto_staged, plan_file,
                   backup_tag, tag_name, globalVars, recVars, seqVars>>
    /\ UNCHANGED toolVars

\* str.lower on the letters the responses use
Lower(s) ==
    [k \in 1..Len(s) |->
        CASE s[k] = "Y" -> "y" [] s[k] = "E" -> "e" [] s[k] = "S" -> "s"
          [] s[k] = "N" -> "n" [] OTHER -> s[k]]

\* str.strip
RECURSIVE Strip(_)
Strip(s) ==
    IF s = <<>> THEN s
    ELSE IF IsSpace(s[1]) THEN Strip(Tail(s))
    ELSE IF IsSpace(s[Len(s)]) THEN Strip(SubSeq(s, 1, Len(s) - 1))
    ELSE s

\* the answer is compared without being lowercased
is_affirmative_case_sensitive(line) == Strip(line) \in {<<"y">>, <<"y", "e", "s">>, <<>>}

\* get_user_confirmation(): the line read from /dev/tty, judged
is_affirmative(line) == Lower(Strip(line)) \in {<<"y">>, <<"y", "e", "s">>, <<>>}

\* what follows an affirmative first answer: create_backup_tag() (line 490)
AfterFirstConfirmation == "create_backup_tag"

\* if not get_user_confirmation("Ready to squash and push? (Y/n)"): deny
confirm_squash ==
    /\ pc = "confirm_squash"
    /\ Step("confirm_1")
    /\ \E tty \in BOOLEAN, line \in Responses :
        /\ response' = [asked |-> TRUE, tty |-> tty, line |-> IF tty THEN line ELSE <<>>]
        /\ IF ~tty
           THEN /\ Emit(DenyDecision("non_interactive", NoTag))
                /\ UNCHANGED answers
           ELSE /\ answers' = Append(answers, is_affirmative(line))
                /\ IF is_affirmative(line)
                   THEN /\ pc' = AfterFirstConfirmation
                        /\ UNCHANGED outVars
                   ELSE LogAndEmit("deny_user_cancelled",
                                   DenyDecision("cancelled_by_user", NoTag))
    /\ UNCHANGED <<repoVars, git_installed, hook_input, localVars, globalVars, last,
                   ops, signals, history0, seqVars>>
    /\ UNCHANGED toolVars

(***************************************************************************)
(* main, lines 489-526: backup tag, squash, validation, second prompt      *)
(***************************************************************************)
\* f"backup/pre-squash-{sha}-{timestamp}": the tip it is made at, and the time
BackupTagName(tip, now) == [sha |-> tip, ts |-> now]

\* the tag command reports success and leaves no tag
git_tag_lost(all_tags, name) == all_tags

\* the tags after a successful git tag name
git_tag(all_tags, name) == all_tags \cup {name}

\* create_backup_tag(), lines 309-312: git rev-parse --short HEAD; git tag tag_name
create_backup_tag ==
    /\ pc = "create_backup_tag"
    /\ Step("backup")
    /\ \E parsed \in {"ok", "fail"}, out \in {"ok", "fail"} :
        LET name == BackupTagName(history, clock)
        IN  IF parsed = "fail"
            THEN /\ last' = <<"rev-parse", "fail">>
                 /\ Raise(NoTag)
                 /\ UNCHANGED <<tags, tag_name, ops>>
            ELSE IF out = "fail" \/ name \in tags
            THEN /\ last' = <<"tag", "fail">>
                 /\ Raise(name)
                 /\ UNCHANGED <<tags, tag_name, ops>>
            ELSE /\ last' = <<"tag", "ok">>
                 /\ tags' = git_tag(tags, name)
                 /\ tag_name' = name
                 /\ Did("tag")
                 /\ pc' = "record_backup_tag"
                 /\ UNCHANGED outVars
    /\ response' = NoPrompt
    /\ UNCHANGED <<branch, history, dirty, staged, clock, git_installed, hook_input,
                   commits, wip_count, auto_staged, plan_file, commit_message,
                   backup_tag, globalVars, answers, signals, history0, seqVars>>
    /\ UNCHANGED toolVars

\* create_backup_tag(), lines 314-315, and main line 490:
\* backup_tag_global = tag_name; return tag_name; backup_tag = ...
record_backup_tag ==
    /\ pc = "record_backup_tag"
    /\ backup_tag_global' = tag_name
    /\ backup_tag' = tag_name
    /\ pc' = "reset_soft"
    /\ UNCHANGED <<repoVars, inputVars, commits, wip_count, auto_staged, plan_file,
                   commit_message, tag_name, interrupted, last, outVars, recVars, seqVars>>
    /\ UNCHANGED toolVars

\* the squash left no backup reference in its failure message
SquashFailedNoTag(tag) == DenyDecision("squash_failed", NoTag)

\* except CalledProcessError: f"Squash failed: {e}\nBackup tag preserved: {backup_tag}"
SquashFailedDecision(tag) == DenyDecision("squash_failed", tag)

\* if interrupted: deny;  squash_commits(): git reset --soft origin/main
reset_soft ==
    /\ pc = "reset_soft"
    /\ IF interrupted
       THEN /\ LogAndEmit("deny_interrupted", DenyDecision("interrupted", backup_tag))
            /\ UNCHANGED <<history, staged, last, steps, ops>>
       ELSE /\ Step("squash")
            /\ \E out \in {"ok", "fail"} :
                /\ last' = <<"reset-soft", out>>
                /\ IF out = "fail"
                   THEN /\ LogAndEmit("deny_squash_failed",
                                      SquashFailedDecision(backup_tag))
                        /\ UNCHANGED <<history, staged, ops>>
                   ELSE /\ history' = <<>>
                        /\ staged' = (staged \/ history # <<>>)
                        /\ Did("reset-soft")
                        /\ pc' = "squash_commit"
                        /\ UNCHANGED outVars
    /\ UNCHANGED <<branch, dirty, tags, clock, inputVars, localVars, globalVars, answers,
                   signals, history0, seqVars>>
    /\ UNCHANGED toolVars

\* the squashed commit is shown for review without being validated
ReviewWithoutValidation == "show_squashed"

\* what follows squash_commits(): validate_squash(backup_tag) (line 503)
AfterSquashCommit == "validate_squash"

\* squash_commits(): git commit -m commit_message
squash_commit ==
    /\ pc = "squash_commit"
    /\ \E out \in {"ok", "fail"} :
        /\ last' = <<"commit", IF staged THEN out ELSE "fail">>
        /\ IF out = "fail" \/ ~staged
           THEN /\ LogAndEmit("deny_squash_failed",
                              SquashFailedDecision(backup_tag))
                /\ UNCHANGED <<history, staged, ops>>
           ELSE /\ history' = <<commit_message>>
                /\ staged' = FALSE
                /\ Did("commit")
                /\ pc' = AfterSquashCommit
                /\ UNCHANGED outVars
    /\ UNCHANGED <<branch, dirty, tags, clock, inputVars, localVars, globalVars, steps,
                   answers, signals, history0, seqVars>>
    /\ UNCHANGED toolVars

\* the backup tag is not looked for
validate_squash_count_only(count_out, count, tag_out, tag_listed) ==
    count_out = "ok" /\ tag_out = "ok" /\ count = 1

\* validate_squash(backup_tag) by what its two queries returned:
\* rev-list --count origin/main..HEAD and tag -l backup_tag
validate_squash(count_out, count, tag_out, tag_listed) ==
    IF count_out # "ok" \/ tag_out # "ok" THEN FALSE
    ELSE IF count # 1 THEN FALSE
    ELSE IF ~tag_listed THEN FALSE
    ELSE TRUE

\* if not validate_squash(backup_tag): deny
validate ==
    /\ pc = "validate_squash"
    /\ Step("validate")
    /\ \E count_out \in {"ok", "fail"}, tag_out \in {"ok", "fail"} :
        /\ count_out = "fail" => tag_out = "ok"
        /\ last' = IF count_out = "fail" THEN <<"rev-list", "fail">> ELSE <<"tag-l", tag_out>>
        /\ IF validate_squash(count_out, Len(history), tag_out, backup_tag \in tags)
           THEN /\ pc' = "show_squashed"
                /\ UNCHANGED outVars
           ELSE LogAndEmit("deny_squash_invalid",
                           DenyDecision("validation_failed", backup_tag))
    /\ UNCHANGED <<repoVars, inputVars, localVars, globalVars, ops, answers, signals,
                   history0, seqVars>>
    /\ UNCHANGED toolVars

\* run_git(['log', '-1', '--pretty=format:%B']), printed for the final review
show_squashed ==
    /\ pc = "show_squashed"
    /\ \E out \in {"ok", "fail"} :
        /\ last' = <<"log", out>>
        /\ IF out = "fail"
           THEN Raise(NoTag)
           ELSE /\ pc' = "confirm_push"
                /\ UNCHANGED outVars
    /\ UNCHANGED <<repoVars, inputVars, localVars, globalVars, recVars, seqVars>>
    /\ UNCHANGED toolVars

\* if not get_user_confirmation("Push this commit? (Y/n)"): restore; else allow
confirm_push ==
    /\ pc = "confirm_push"
    /\ Step("confirm_2")
    /\ \E tty \in BOOLEAN, line \in Responses :
        /\ response' = [asked |-> TRUE, tty |-> tty, line |-> IF tty THEN line ELSE <<>>]
        /\ IF ~tty
           THEN /\ Emit(DenyDecision("non_interactive", NoTag))
                /\ UNCHANGED answers
           ELSE /\ answers' = Append(answers, is_affirmative(line))
                /\ IF is_affirmative(line)
                   THEN LogAndEmit("allow_squash_success", AllowDecision)
                   ELSE /\ pc' = "reset_hard"
                        /\ UNCHANGED outVars
    /\ UNCHANGED <<repoVars, git_installed, hook_input, localVars, globalVars, last,
                   ops, signals, history0, seqVars>>
    /\ UNCHANGED toolVars

\* the rollback goes to the remote tip, not to the backup tag
RollbackToRemote(tag) == <<>>

\* the tip git reset --hard backup_tag moves the branch to
RollbackTarget(tag) == tag.sha

\* run_git(['reset', '--hard', backup_tag]); deny "restored to original state"
reset_hard ==
    /\ pc = "reset_hard"
    /\ \E out \in {"ok", "fail"} :
        /\ last' = <<"reset-hard", out>>
        /\ IF out = "fail"
           THEN /\ Raise(backup_tag)
                /\ UNCHANGED <<history, staged, dirty, ops>>
           ELSE /\ history' = RollbackTarget(backup_tag)
                /\ staged' = FALSE
                /\ dirty' = FALSE
                /\ Did("reset-hard")
                /\ LogAndEmit("deny_final_cancelled", DenyDecision("restored", NoTag))
    /\ response' = NoPrompt
    /\ UNCHANGED <<branch, tags, clock, git_installed, hook_input, localVars, globalVars,
                   steps, answers, signals, history0, seqVars>>
    /\ UNCHANGED toolVars

(***************************************************************************)
(* allow_command / deny_command, the signal handler                        *)
(***************************************************************************)
\* print(json.dumps(output))
print_decision ==
    /\ pc = "print"
    /\ stdout' = Append(stdout, pending)
    /\ Step("decision")
    /\ pc' = "exit"
    /\ response' = NoPrompt
    /\ UNCHANGED <<repoVars, git_installed, hook_input, localVars, globalVars, last,
                   pending, exit_code, log, ops, answers, signals, history0, seqVars>>
    /\ UNCHANGED toolVars

\* the status the process ends with
ExitStatus == 0

\* sys.exit(0)
sys_exit ==
    /\ pc = "exit"
    /\ exit_code' = ExitStatus
    /\ pc' = "done"
    /\ UNCHANGED <<repoVars, inputVars, localVars, globalVars, last, pending, stdout, log,
                   recVars, seqVars>>
    /\ UNCHANGED toolVars

\* the decision signal_handler denies with
HandlerDecision(global_tag) == DenyDecision("interrupted", global_tag)

\* signal_handler(signum, frame), on SIGINT or SIGTERM while the process lives
signal_handler ==
    /\ pc \notin {"idle", "done", "tool", "cleanup"}
    /\ signals < MaxSignals
    /\ signals' = signals + 1
    /\ interrupted' = TRUE
    /\ pending' = HandlerDecision(backup_tag_global)
    /\ pc' = "print"
    /\ UNCHANGED <<repoVars, inputVars, localVars, backup_tag_global, last, stdout,
                   exit_code, log, steps, ops, answers, history0, seqVars>>
    /\ UNCHANGED toolVars

main ==
    \/ validate_dependencies
    \/ read_input
    \/ classify
    \/ get_current_branch
    \/ fetch
    \/ rev_list
    \/ check_wip
    \/ single_wip
    \/ single_amend
    \/ has_merge_conflicts
    \/ has_unstaged_changes
    \/ auto_add
    \/ auto_commit
    \/ find_plan_file
    \/ generate_commit_message
    \/ confirm_squash
    \/ create_backup_tag
    \/ record_backup_tag
    \/ reset_soft
    \/ squash_commit
    \/ validate
    \/ show_squashed
    \/ confirm_push
    \/ reset_hard
    \/ print_decision
    \/ sys_exit

\* one run of the pre-push hook
Next == main \/ signal_handler

Spec == Init /\ [][Next]_vars

(***************************************************************************)
(* Successive tool calls on one repository: the pre-push hook, the command *)
(* itself when the hook allowed it, then post-push-cleanup.py              *)
(***************************************************************************)
\* main's locals and the module's globals as a new process has them
FreshProcess ==
    /\ commits' = <<>>
    /\ wip_count' = 0
    /\ auto_staged' = FALSE
    /\ plan_file' = NoPlan
    /\ commit_message' = <<>>
    /\ backup_tag' = NoTag
    /\ tag_name' = NoTag
    /\ interrupted' = FALSE
    /\ backup_tag_global' = NoTag
    /\ last' = NoCall
    /\ pending' = NoDecision
    /\ stdout' = <<>>
    /\ exit_code' = -1
    /\ log' = <<>>
    /\ steps' = <<>>
    /\ ops' = <<>>
    /\ answers' = <<>>
    /\ signals' = 0
    /\ history0' = history'

\* the run ended in a denial with the soft reset done and no rollback
DeniedSquashed ==
    /\ stdout # <<>>
    /\ stdout[Len(stdout)].decision = "deny"
    /\ \E k \in 1..Len(ops) : ops[k] = "reset-soft"
    /\ \A k \in 1..Len(ops) : ops[k] # "reset-hard"

\* the hook process is gone: the harness runs the command if the answer was
\* allow, and the command ends with an exit code; a push of main that succeeds
\* leaves nothing in origin/main..HEAD
tool_call ==
    /\ pc = "done"
    /\ IF stdout = <<AllowDecision>>
       THEN \E code \in {0, 1} :
            /\ tool_exit' = code
            /\ history' = IF code = 0 /\ cleanup_is_push_command(hook_input.command)
                             /\ branch = "main"
                          THEN <<>> ELSE history
            /\ pc' = "cleanup"
       ELSE /\ pc' = "idle"
            /\ UNCHANGED <<tool_exit, history>>
    /\ squash_left' = IF DeniedSquashed THEN tag_name
                      ELSE IF history' # history THEN NoTag
                      ELSE squash_left
    /\ FreshProcess
    /\ UNCHANGED <<branch, dirty, staged, tags, clock, inputVars, runs>>
    /\ UNCHANGED toolVars

\* delete_backup_tags() with the age test written as "not older than": the
\* tag of exactly 300 seconds goes too
delete_backup_tags_inclusive(all_tags, current_time) ==
    {t \in all_tags : ~(current_time - t.ts <= RECENT_SECONDS)}

\* delete_backup_tags(): the tags that stay, those not younger than 300 seconds
delete_backup_tags(all_tags, current_time) ==
    {t \in all_tags : ~(current_time - t.ts < RECENT_SECONDS)}

\* post-push-cleanup.py main(): clean up only after a successful push
post_push_cleanup ==
    /\ pc = "cleanup"
    /\ tags' = IF cleanup_is_push_command(hook_input.command) /\ tool_exit = 0
               THEN delete_backup_tags(tags, clock)
               ELSE tags
    /\ pc' = "idle"
    /\ UNCHANGED <<branch, history, dirty, staged, clock, inputVars, localVars,
                   globalVars, last, outVars, recVars, seqVars>>
    /\ UNCHANGED toolVars

\* the next tool call starts the hook again, on the repository as it is now
start_run ==
    /\ pc = "idle"
    /\ runs < MaxRuns
    /\ runs' = runs + 1
    /\ git_installed' = TRUE
    /\ hook_input' \in {i \in HookInputs : i.kind = "object"}
    /\ pc' = "validate_dependencies"
    /\ UNCHANGED <<response, repoVars, localVars, globalVars, last, outVars, recVars,
                   tool_exit, squash_left>>
    /\ UNCHANGED toolVars

\* time passes between tool calls
tick ==
    /\ pc = "idle"
    /\ clock + TickSeconds <= MaxClock
    /\ clock' = clock + TickSeconds
    /\ UNCHANGED <<branch, history, dirty, staged, tags, inputVars, pc, localVars,
                   globalVars, last, outVars, recVars, seqVars>>
    /\ UNCHANGED toolVars

\* a first push on main, then whatever tool calls follow
InitSeq ==
    /\ Init
    /\ branch = "main"
    /\ history # <<>>
    /\ git_installed
    /\ hook_input = [kind |-> "object", command |-> CMD_PUSH]

\* uninterrupted runs, the commands they allow, the cleanup after each command
NextSeq == main \/ tool_call \/ post_push_cleanup \/ start_run \/ tick

SpecSeq == InitSeq /\ [][NextSeq]_vars

(***************************************************************************)
(* The classifier over many command strings: each string is a head         *)
(* followed by up to MaxTokens pieces; the run is on a feature branch with *)
(* WIP commits and a dirty tree, so it ends right after the branch query   *)
(* when the string is taken for a push                                     *)
(***************************************************************************)
CommandHeads == {CMD_PUSH, CMD_JJ_PUSH, CMD_STATUS}
\* whitespace followed by an argument of word characters, hyphens and slashes
ArgTokens == {<<" ", "o">>, <<"\t", "-", "f">>, <<" ", " ", "a", "/", "b", "_", "1">>}
\* shell operators
OperatorTokens == {<<";">>, <<"&", "&">>, <<"|">>}
CommandTokens == ArgTokens \cup OperatorTokens \cup {SP, NL, <<"x">>}
ClassifierCommands ==
    {h \o Join(ts, <<>>) : h \in CommandHeads, ts \in SeqsUpTo(CommandTokens, MaxTokens)}

InitClassify ==
    /\ AtRest({"log", "stop", "resize", "migrate"})
    /\ branch = "feature"
    /\ history = <<M_WIP_A, M_C>>
    /\ dirty = TRUE
    /\ staged = FALSE
    /\ tags = {}
    /\ clock = 0
    /\ git_installed \in BOOLEAN
    /\ hook_input \in
        {i \in HookInputs : i.kind # "object"}
            \cup {[kind |-> "object", command |-> c] : c \in ClassifierCommands}
    /\ runs = 1
    /\ tool_exit = -1
    /\ squash_left = NoTag
    /\ RunStart

NextClassify ==
    \/ validate_dependencies
    \/ read_input
    \/ classify
    \/ get_current_branch
    \/ print_decision
    \/ sys_exit

SpecClassify == InitClassify /\ [][NextClassify]_vars

(***************************************************************************)
(* Validation over any repository: main has returned from squash_commits   *)
(* (line 500) and validate_squash finds the repository as it is by then,   *)
(* whatever other git activity has added or removed commits and tags       *)
(***************************************************************************)
InitValidate ==
    /\ AtRest({"log", "stop", "resize", "migrate"})
    /\ branch \in {"main", "master"}
    /\ history \in Histories
    /\ dirty = FALSE
    /\ staged = FALSE
    /\ history0 \in {h \in Histories : Len(h) = 2 /\ has_wip_commits(Oneline(h))}
    /\ tag_name = BackupTagName(history0, 0)
    /\ tags \in SUBSET {tag_name}
    /\ clock = 0
    /\ git_installed = TRUE
    /\ hook_input = [kind |-> "object", command |-> CMD_PUSH]
    /\ response = NoPrompt
    /\ pc = "validate_squash"
    /\ commits = Oneline(history0)
    /\ wip_count = Len(history0)
    /\ auto_staged = FALSE
    /\ plan_file = NoPlan
    /\ commit_message = FallbackMessage(history0)
    /\ backup_tag = tag_name
    /\ backup_tag_global = tag_name
    /\ interrupted = FALSE
    /\ last = <<"commit", "ok">>
    /\ pending = NoDecision
    /\ stdout = <<>>
    /\ exit_code = -1
    /\ log = <<>>
    /\ steps = <<"classify", "branch", "fetch", "commit_list", "wip_scan",
                 "conflict_check", "confirm_1", "backup", "squash">>
    /\ ops = <<"tag", "reset-soft", "commit">>
    /\ answers = <<TRUE>>
    /\ signals = 0
    /\ runs = 1
    /\ tool_exit = -1
    /\ squash_left = NoTag

NextValidate ==
    \/ validate
    \/ show_squashed
    \/ confirm_push
    \/ reset_hard
    \/ print_decision
    \/ sys_exit

SpecValidate == InitValidate /\ [][NextValidate]_vars

(***************************************************************************)
(* Properties                                                              *)
(*                                                                         *)
(* A claim about what a path of the workflow does is read for a run that   *)
(* is not interrupted (signals = 0) and whose latest git command did not   *)
(* fail (last[2] = "ok"), unless the claim is itself about a failure or a  *)
(* signal.                                                                 *)
(***************************************************************************)
Ran(cmd) == \E k \in 1..Len(ops) : ops[k] = cmd
Logged(result) == \E k \in 1..Len(log) : log[k] = result
Finished == pc = "done"
Uninterrupted == signals = 0
FinalDecision == stdout[Len(stdout)]
RecognisedPush ==
    /\ git_installed
    /\ hook_input.kind = "object"
    /\ is_push_command(hook_input.command)
\* the commit's message begins with the literal prefix WIP:
HasWipPrefix(msg) == StartsWith(msg, S_WIP)
WipCount(h) == Cardinality({k \in 1..Len(h) : HasWipPrefix(h[k])})
\* the tip the backup tag is made at: the commits the run began with, under
\* the auto-commit if the run made one
TipAtBackup == IF auto_staged THEN <<S_AUTO>> \o history0 ELSE history0

\* C1: git reset --soft origin/main is executed only after git tag succeeded
\* in the same run, and from then on the tag stays in the repository on every
\* path of the run: squash failure, validation failure, interruption,
\* declined confirmation, exception.
C1_BackupBeforeReset ==
    /\ \A k \in 1..Len(ops) :
        ops[k] = "reset-soft" => \E j \in 1..(k - 1) : ops[j] = "tag"
    /\ Ran("tag") =>
        /\ tag_name # NoTag
        /\ tag_name \in tags
        /\ tag_name.sha = TipAtBackup
    /\ Ran("reset-soft") => backup_tag = tag_name

\* a run that was denied after its soft reset, the tag still there
C1_Witness ==
    /\ Finished
    /\ Ran("reset-soft")
    /\ ~Ran("reset-hard")
    /\ FinalDecision.decision = "deny"
    /\ tag_name \in tags

\* C2: across hook runs and cleanup runs, the repository is never left with
\* the squash of a denied run applied (soft reset done, no rollback) while
\* that run's backup tag no longer exists.
C2_NoSquashWithoutTag == squash_left # NoTag => squash_left \in tags

\* C3: when the operator declines the second confirmation, the hook resets
\* hard to the backup tag and denies, and the branch tip is again the tip the
\* backup tag was made at, with nothing staged.
C3_RollbackRestoresTip ==
    (Finished /\ Uninterrupted /\ last[2] = "ok" /\ answers = <<TRUE, FALSE>>) =>
        /\ stdout = <<DenyDecision("restored", NoTag)>>
        /\ ops[Len(ops)] = "reset-hard"
        /\ history = TipAtBackup
        /\ ~staged
        /\ exit_code = 0

\* a rollback over a squash that had an auto-commit under it
C3_Witness ==
    /\ Finished
    /\ answers = <<TRUE, FALSE>>
    /\ Ran("reset-hard")
    /\ auto_staged
    /\ Len(history) = Len(history0) + 1

\* C4: a signal that arrives before git reset --soft ends the run in a denial,
\* and if the run's backup tag already exists in the repository when the
\* signal arrives, the denial names it.
C4_InterruptNamesTag ==
    (pc = "print" /\ pending.reason = "interrupted" /\ ~Ran("reset-soft")) =>
        /\ pending.decision = "deny"
        /\ Ran("tag") => pending.tag = tag_name

\* C5: every run ends with exit status 0 after writing a decision that is
\* allow or deny; a missing git binary, malformed input and any exception
\* raised in the flow end in a deny decision.
RaisingCommands ==
    {"branch", "log", "amend", "add", "commit", "rev-parse", "tag", "reset-soft",
     "reset-hard"}
\* the latest git command failed with an exception that left the function it ran in
RaisedLast == last[2] = "fail" /\ last[1] \in RaisingCommands
C5_AlwaysDecidesExitZero ==
    /\ exit_code \in {-1, 0}
    /\ Finished =>
        /\ exit_code = 0
        /\ stdout # <<>>
        /\ \A k \in 1..Len(stdout) : stdout[k].decision \in {"allow", "deny"}
        /\ (~git_installed \/ hook_input.kind # "object" \/ Logged("error")
            \/ RaisedLast) =>
                \A k \in 1..Len(stdout) : stdout[k].decision = "deny"

\* a run that ended through the top-level exception handler
C5_Witness ==
    /\ Finished
    /\ Logged("error")
    /\ last = <<"reset-hard", "fail">>
    /\ exit_code = 0

\* C6: the steps of a run occur in one fixed order, each at most once and
\* none skipped before a later one: classify, branch, fetch, commit list, WIP
\* scan, conflict check, (auto-commit), first confirmation, backup tag,
\* soft reset + commit, validation, second confirmation, decision.
WorkflowOrder ==
    <<"classify", "branch", "fetch", "commit_list", "wip_scan", "conflict_check",
      "confirm_1", "backup", "squash", "validate", "confirm_2">>
CoreSteps == SelectSeq(steps, LAMBDA st : st \notin {"auto_commit", "decision"})
C6_StepsInOrder ==
    /\ Len(CoreSteps) <= Len(WorkflowOrder)
    /\ CoreSteps = SubSeq(WorkflowOrder, 1, Len(CoreSteps))
    /\ \A k \in 1..Len(steps) :
        /\ steps[k] = "auto_commit" =>
            /\ k > 1
            /\ steps[k - 1] = "conflict_check"
        /\ steps[k] = "decision" =>
            /\ \A j \in (k + 1)..Len(steps) : steps[j] = "decision"
            /\ Uninterrupted => k = Len(steps)
    /\ (Finished /\ Uninterrupted) => steps[Len(steps)] = "decision"

\* a run that took every step, the auto-commit included
C6_Witness ==
    /\ Finished
    /\ CoreSteps = WorkflowOrder
    /\ \E k \in 1..Len(steps) : steps[k] = "auto_commit"
    /\ steps[Len(steps)] = "decision"

\* C7: for a recognised push, if the branch is neither main nor master, or no
\* commit is ahead of origin/main, or none of them has a WIP-prefixed message,
\* the hook executes no commit, amend, tag or reset, and allows the push.
NothingToSquash ==
    \/ branch \notin {"main", "master"}
    \/ history0 = <<>>
    \/ WipCount(history0) = 0
C7_AllowsUntouched ==
    (RecognisedPush /\ NothingToSquash) =>
        /\ ops = <<>>
        /\ history = history0
        /\ tags = {}
        /\ (Finished /\ Uninterrupted /\ last[2] = "ok") => stdout = <<AllowDecision>>

\* commits without the prefix on main, allowed as they are
C7_Witness ==
    /\ Finished
    /\ RecognisedPush
    /\ branch = "main"
    /\ history0 = <<M_C, M_C>>
    /\ stdout = <<AllowDecision>>
    /\ Logged("allow_no_wip")

\* C8: given exactly one unpushed commit whose message is "WIP: <text>", after
\* the run the commit message is <text>, the push is allowed, and no backup
\* tag was created and no reset was executed (recognised push on main or
\* master).
TextAfterPrefix(msg) == SubSeq(msg, Len(S_WIP_SP) + 1, Len(msg))
C8_SingleWipAmended ==
    (/\ Finished /\ Uninterrupted /\ last[2] = "ok"
     /\ RecognisedPush
     /\ branch \in {"main", "master"}
     /\ Len(history0) = 1
     /\ StartsWith(history0[1], S_WIP_SP)) =>
        /\ history = <<TextAfterPrefix(history0[1])>>
        /\ stdout = <<AllowDecision>>
        /\ ops = <<"amend">>
        /\ tags = {}

\* the single commit "WIP: a" became "a"
C8_Witness ==
    /\ Finished
    /\ history0 = <<M_WIP_A>>
    /\ history = << <<"a">> >>
    /\ stdout = <<AllowDecision>>

\* C9: whenever exactly one of the unpushed commits carries the WIP prefix,
\* however many other unpushed commits there are, the hook takes the amend
\* path: once the WIP scan is done the run is on the single-commit path or
\* deciding, it ends in allow, strips the prefix the amend path looks for
\* ("WIP: "), creates no backup tag and squashes nothing.
AmendPath == {"single_wip", "single_amend", "print", "exit", "done"}
C9_OneWipAmongOthersAmended ==
    (/\ RecognisedPush
     /\ Uninterrupted
     /\ branch \in {"main", "master"}
     /\ WipCount(history0) = 1
     /\ \E k \in 1..Len(steps) : steps[k] = "wip_scan") =>
        /\ pc \in AmendPath
        /\ ~Ran("tag")
        /\ ~Ran("reset-soft")
        /\ (Finished /\ last[2] = "ok") =>
            /\ stdout = <<AllowDecision>>
            /\ \A k \in 1..Len(history) : ~StartsWith(history[k], S_WIP_SP)

\* C10: when git fetch origin exits non-zero during a recognised push on main
\* or master, the hook denies the push.
C10_FetchFailureDenies ==
    (Finished /\ last = <<"fetch", "fail">>) => FinalDecision.decision = "deny"

\* the run has ended or is writing its decision
Deciding == pc \in {"print", "exit", "done"}

\* C11: if the merge-tree preview times out or fails (non-zero exit, error),
\* has_merge_conflicts reports conflicts and the push is denied: the run goes
\* no further than the denial for merge conflicts.
C11_ConflictCheckFailsClosed ==
    (Uninterrupted /\ last[1] = "merge-tree" /\ last[2] \in {"timeout", "error"}) =>
        /\ Deciding
        /\ pending = DenyDecision("merge_conflicts", NoTag)
        /\ Logged("deny_conflicts")

\* C12, as the code has it: a git diff --quiet that times out is taken for a
\* clean tree and no auto-commit is made; one that exits non-zero (a difference,
\* or an error) is taken for a dirty tree and the auto-commit is attempted.
C12_DiffTimeoutOpenFailureDirty ==
    (Uninterrupted /\ last[1] = "diff") =>
        /\ last[2] = "timeout" =>
            /\ pc = "find_plan_file"
            /\ ~auto_staged
            /\ ~Ran("add")
        /\ last[2] = "error" => pc = "auto_add"
        /\ last[2] = "ok" => pc = (IF dirty \/ staged THEN "auto_add" ELSE "find_plan_file")

\* a diff check that timed out over a dirty tree, the run past it with no auto-commit
C12_Witness ==
    /\ pc = "find_plan_file"
    /\ last = <<"diff", "timeout">>
    /\ dirty
    /\ history = history0

\* C12, as stated: if either git diff --quiet call times out or fails, the
\* tree is reported clean and no auto-commit is made.
C12_DiffFailsOpen ==
    (Uninterrupted /\ last[1] = "diff" /\ last[2] \in {"timeout", "error"}) =>
        /\ pc = "find_plan_file"
        /\ ~Ran("add")

\* the git queries that are run with a timeout, by what a timeout does to the run
DenyingQueries == {"fetch", "rev-list", "merge-tree"}
ContinuingQueries == {"diff", "diff-names", "diff-stat"}

\* C13, as the code has it: a timeout of fetch, of the commit list or of the
\* merge preview ends the run in a denial (fetch and commit list: the
\* network-failure reason); a timeout of the working-tree diff check, of the
\* plan-file lookup or of the diff summary lets the workflow continue.
C13_TimeoutsDenyOrDefault ==
    (Uninterrupted /\ last[2] = "timeout") =>
        /\ last[1] \in DenyingQueries \cup ContinuingQueries
        /\ last[1] \in {"fetch", "rev-list"} =>
            /\ Deciding
            /\ pending = DenyDecision("fetch_timeout", NoTag)
        /\ last[1] = "merge-tree" =>
            /\ Deciding
            /\ pending = DenyDecision("merge_conflicts", NoTag)
        /\ last[1] = "diff" => pc = "find_plan_file"
        /\ last[1] = "diff-names" => pc = "generate_commit_message" /\ plan_file = NoPlan
        /\ last[1] = "diff-stat" =>
            /\ Contains(commit_message, S_UNABLE)
            /\ pc = "confirm_squash" \/ \E k \in 1..Len(steps) : steps[k] = "confirm_1"

\* the diff summary timed out and the run went on to the first prompt
C13_Witness ==
    /\ pc = "confirm_squash"
    /\ last = <<"diff-stat", "timeout">>
    /\ Contains(commit_message, S_UNABLE)

\* C13, as stated: every git timeout ends the run in a denial, the only
\* exception being the working-tree diff check.
C13_TimeoutIsTerminal ==
    (Uninterrupted /\ last[2] = "timeout" /\ last[1] # "diff") =>
        /\ Deciding
        /\ pending.decision = "deny"

\* C15: if git reset --soft or the squash commit fails after the backup tag was
\* created, the run ends in a denial whose reason names the backup tag, and
\* the tag still exists.
SquashStepFailed ==
    /\ Ran("tag")
    /\ last \in {<<"reset-soft", "fail">>, <<"commit", "fail">>}
C15_SquashFailureNamesTag ==
    SquashStepFailed =>
        /\ Deciding
        /\ pending.decision = "deny"
        /\ pending.tag = tag_name
        /\ tag_name \in tags
        /\ Logged("deny_squash_failed")
        /\ Finished =>
            \A k \in 1..Len(stdout) :
                stdout[k].decision = "deny" /\ stdout[k].tag = tag_name

\* the squash commit failed after the soft reset: denied, the tag named and kept
C15_Witness ==
    /\ Finished
    /\ last = <<"commit", "fail">>
    /\ Ran("reset-soft")
    /\ FinalDecision = SquashFailedDecision(tag_name)
    /\ tag_name \in tags

\* the command of the run is the head h followed by the pieces ts
CommandIs(h, ts) == hook_input.command = h \o Join(ts, <<>>)
\* the run has classified its command
Classified ==
    /\ git_installed
    /\ hook_input.kind = "object"
    /\ \E k \in 1..Len(steps) : steps[k] = "classify"
ClassifiedAsPush == Classified /\ ~Logged("allow_non_push")
PushHeads == {CMD_PUSH, CMD_JJ_PUSH}

\* C16: every string "git push" or "jj git push" followed by zero or more
\* whitespace-separated arguments of word characters, hyphens and slashes is
\* classified as a push; every string with ";", "&&" or "|" after a push
\* prefix, and a git command that is no push, is classified as not a push.
C16_ClassifierGrammar ==
    Classified =>
        \A h \in CommandHeads, ts \in SeqsUpTo(CommandTokens, MaxTokens) :
            CommandIs(h, ts) =>
                /\ (h \in PushHeads /\ \A k \in 1..Len(ts) : ts[k] \in ArgTokens) =>
                        /\ ClassifiedAsPush
                        /\ is_push_command(hook_input.command)
                /\ (h \in PushHeads /\ \E k \in 1..Len(ts) : ts[k] \in OperatorTokens) =>
                        /\ Logged("allow_non_push")
                        /\ ~is_push_command(hook_input.command)
                /\ h = CMD_STATUS => Logged("allow_non_push")

\* "git push" with the arguments "-f" and "a/b_1" went on to the branch query
C16_Witness ==
    /\ Finished
    /\ hook_input.command = CMD_PUSH \o <<"\t", "-", "f">> \o <<" ", " ", "a", "/", "b", "_", "1">>
    /\ last = <<"branch", "ok">>
    /\ Logged("allow_feature_branch")

\* C17: no command string that holds a shell control character or a command
\* separator, a newline included, is classified as a push.
ShellControl == {"\n", ";", "&", "|", "$", "<", ">"}
C17_NoShellControlInPush ==
    ClassifiedAsPush =>
        \A k \in 1..Len(hook_input.command) : hook_input.command[k] \notin ShellControl

\* C18: for a command string that is not classified as a push, with
\* well-formed input and git installed, the hook runs no git query or command
\* on the repository (no branch query, no fetch, no commit, tag or reset),
\* leaves it as it was and answers allow; a string with a shell operator after
\* the push prefix is such a string.
NotAPush ==
    \/ ~is_push_command(hook_input.command)
    \/ \E h \in PushHeads, ts \in SeqsUpTo(CommandTokens, MaxTokens) :
        /\ CommandIs(h, ts)
        /\ \E k \in 1..Len(ts) : ts[k] \in OperatorTokens
C18_NonPushPassesThrough ==
    (git_installed /\ hook_input.kind = "object" /\ NotAPush) =>
        /\ last = NoCall
        /\ ops = <<>>
        /\ history = history0
        /\ tags = {}
        /\ \A k \in 1..Len(steps) : steps[k] \in {"classify", "decision"}
        /\ Classified => pending = AllowDecision /\ log = <<"allow_non_push">>
        /\ Finished => stdout = <<AllowDecision>> /\ exit_code = 0

\* "git push; o" over unpushed WIP commits and a dirty tree: allowed, untouched
C18_Witness ==
    /\ Finished
    /\ hook_input.command = CMD_PUSH \o <<";">> \o <<" ", "o">>
    /\ history0 = <<M_WIP_A, M_C>>
    /\ dirty
    /\ stdout = <<AllowDecision>>
    /\ last = NoCall

\* the lines of Responses that, without their surrounding whitespace and line
\* end and whatever their case, are empty, "y" or "yes"
ExpectedYes == {<<>>, <<"\n">>, <<"y", "\n">>, <<" ", "Y", "E", "S", "\n">>}
LastStep == steps[Len(steps)]

\* C19: each confirmation prompt reads one line from the controlling terminal;
\* the answer is affirmative exactly when the response (the line without its
\* surrounding whitespace and line end), case-insensitively, is empty, "y" or
\* "yes", and negative for anything else; if the terminal cannot be opened the
\* run ends in a denial.
C19_ConfirmationAnswer ==
    (Uninterrupted /\ response.asked) =>
        /\ LastStep \in {"confirm_1", "confirm_2"}
        /\ ~response.tty =>
            /\ pc = "print"
            /\ pending = DenyDecision("non_interactive", NoTag)
            /\ Len(answers) = (IF LastStep = "confirm_1" THEN 0 ELSE 1)
        /\ response.tty =>
            LET yes == response.line \in ExpectedYes
            IN  /\ answers # <<>>
                /\ answers[Len(answers)] = yes
                /\ LastStep = "confirm_1" =>
                    IF yes THEN pc = "create_backup_tag"
                    ELSE pc = "print" /\ pending = DenyDecision("cancelled_by_user", NoTag)
                /\ LastStep = "confirm_2" =>
                    IF yes THEN pc = "print" /\ pending = AllowDecision
                    ELSE pc = "reset_hard"

\* " YES" typed at the second prompt: the push is about to be allowed
C19_Witness ==
    /\ response = [asked |-> TRUE, tty |-> TRUE, line |-> <<" ", "Y", "E", "S", "\n">>]
    /\ LastStep = "confirm_2"
    /\ answers = <<TRUE, TRUE>>
    /\ pending = AllowDecision

\* two unpushed WIP commits on main, no auto-commit, both prompts answered yes
S_SQUASHED_2 == S_SQUASHED \o <<"2">> \o S_WIP_COMMITS
TwoWipSquashed ==
    /\ Finished
    /\ Uninterrupted
    /\ last[2] = "ok"
    /\ RecognisedPush
    /\ branch = "main"
    /\ Len(history0) = 2
    /\ WipCount(history0) = 2
    /\ ~Ran("add")
    /\ ~dirty
    /\ answers = <<TRUE, TRUE>>
OneTagOneCommit ==
    /\ stdout = <<AllowDecision>>
    /\ history = <<commit_message>>
    /\ tags = {tag_name}
    /\ tag_name.sha = history0
    /\ Cardinality({k \in 1..Len(ops) : ops[k] = "tag"}) = 1

C14_ValidationIffOneCommitAndTag ==
    /\ (LastStep = "validate" /\ last[1] \in {"rev-list", "tag-l"}) =>
        IF last[2] = "ok" /\ Len(history) = 1 /\ backup_tag \in tags
        THEN /\ pc = "show_squashed"
             /\ pending = NoDecision
        ELSE /\ pc = "print"
             /\ pending = DenyDecision("validation_failed", backup_tag)
             /\ backup_tag # NoTag
             /\ log = <<"deny_squash_invalid">>
    /\ (Finished /\ Logged("deny_squash_invalid")) =>
        stdout = <<DenyDecision("validation_failed", backup_tag)>>

\* both queries answered, the tag is there, but two commits are ahead: denied
C14_Witness ==
    /\ Finished
    /\ last = <<"tag-l", "ok">>
    /\ Len(history) = 2
    /\ backup_tag \in tags
    /\ stdout = <<DenyDecision("validation_failed", backup_tag)>>

C27_AtMostOneDecision == Len(stdout) <= 1

\* C28: every denial given while the branch is soft-reset or squashed and not
\* rolled back names the backup tag in its reason: the denial for a terminal
\* that cannot be opened at the second confirmation and the denial for a
\* command that fails after the squash (git log, git reset --hard) included.
C28_SquashedDenialNamesTag ==
    (/\ Finished
     /\ Uninterrupted
     /\ stdout # <<>>
     /\ FinalDecision.decision = "deny"
     /\ Ran("reset-soft")
     /\ ~Ran("reset-hard")) =>
        /\ backup_tag # NoTag
        /\ FinalDecision.tag = backup_tag

\* git fetch origin succeeded and the commit listing after it did too
FetchedAndListed ==
    /\ \E k \in 1..Len(steps) : steps[k] = "commit_list"
    /\ last # <<"rev-list", "fail">>

\* C29: whenever the hook answers allow for a recognised push on main or
\* master after a successful fetch, no commit in origin/main..HEAD has a
\* message that begins with "WIP:", with or without a space after it.
C29_NoWipAfterAllow ==
    (/\ Finished
     /\ Uninterrupted
     /\ RecognisedPush
     /\ IsProtectedBranch(branch)
     /\ FetchedAndListed
     /\ stdout = <<AllowDecision>>) =>
        \A k \in 1..Len(history) : ~HasWipPrefix(history[k])

\* C30: if the operator declines the first confirmation the run ends in a
\* denial, no tag, reset or amend has been executed, and the branch tip and
\* the index are what they were when the hook started: an auto-commit made
\* before the prompt does not remain.
C30_DeclineLeavesRepositoryAsFound ==
    (Finished /\ Uninterrupted /\ Logged("deny_user_cancelled")) =>
        /\ FinalDecision.decision = "deny"
        /\ ~Ran("tag") /\ ~Ran("reset-soft") /\ ~Ran("reset-hard") /\ ~Ran("amend")
        /\ history = history0
        /\ ~Ran("add")

(***************************************************************************)
(* pre_push_squash.py, lines 61-96: log_execution and rotate_logs          *)
(***************************************************************************)
\* lengths in bytes of the JSON line one call writes
EntrySizes == {112, 160}

\* for i in range(LOG_MAX_BACKUPS - 1, 0, -1): rename .log.i to .log.(i+1) if
\* it exists; then rename the live log to .log.1.  The rename of name fail
\* raises (-1: none does), which ends the rotation where it is.
RECURSIVE RotateFrom(_, _, _)
RotateFrom(dir, i, fail) ==
    IF i = 0
    THEN IF dir[0] # NoFile /\ fail # 0
         THEN [dir EXCEPT ![1] = dir[0], ![0] = NoFile]
         ELSE dir
    ELSE IF dir[i] = NoFile THEN RotateFrom(dir, i - 1, fail)
    ELSE IF fail = i THEN dir
    ELSE RotateFrom([dir EXCEPT ![i + 1] = dir[i], ![i] = NoFile], i - 1, fail)

\* rotate_logs() with the loop started one name too high: .log.5 moves on
rotate_logs_from_last(dir, fail) == RotateFrom(dir, LOG_MAX_BACKUPS, fail)

rotate_logs(dir, fail) == RotateFrom(dir, LOG_MAX_BACKUPS - 1, fail)

\* the live log is there and larger than LOG_MAX_SIZE
NeedsRotation(dir) == dir[0] # NoFile /\ dir[0].size > LOG_MAX_SIZE

\* log_execution(result, ...): rotate if needed, then append one line to the
\* live log; an open that raises writes nothing
log_execution ==
    /\ log_time < MaxLogCalls
    /\ log_time' = log_time + 1
    /\ \E e \in EntrySizes, fail \in -1..(LOG_MAX_BACKUPS - 1), opened \in BOOLEAN :
        LET d == IF NeedsRotation(log_dir) THEN rotate_logs(log_dir, fail) ELSE log_dir
            line == IF d[0] = NoFile
                    THEN [size |-> e, mtime |-> log_time']
                    ELSE [size |-> d[0].size + e, mtime |-> log_time']
        IN  log_dir' = IF opened THEN [d EXCEPT ![0] = line] ELSE d
    /\ UNCHANGED <<hookVars, stop_world, stop_result, transcript, resize_result,
                   plan_files, batch_size, migration, progress>>

\* a log directory as earlier runs left it: the first m backups, each rotated
\* out above the limit and the older the higher its number, and a live log
\* that is absent, small, at the limit or above it
InitLog ==
    /\ AtRest({"hook", "stop", "resize", "migrate"})
    /\ log_time = 0
    /\ \E m \in 0..LOG_MAX_BACKUPS,
          live \in {NoFile} \cup
                   {[size |-> n, mtime |-> 0] :
                        n \in {160, LOG_MAX_SIZE, LOG_MAX_SIZE + 1, LOG_MAX_SIZE + 112}} :
        log_dir = [i \in LogNames |->
                      IF i = 0 THEN live
                      ELSE IF i <= m THEN [size |-> LOG_MAX_SIZE + 100, mtime |-> 0 - i]
                      ELSE NoFile]

\* one call of log_execution after another
SpecLog == InitLog /\ [][log_execution]_vars

\* the backups a directory holds
Backups(dir) == {i \in 1..(LOG_MAX_BACKUPS + 1) : dir[i] # NoFile}

\* this call moved the live log to .log.1
LiveRotated == NeedsRotation(log_dir) /\ log_dir'[1] = log_dir[0]

\* C22: after any sequence of log_execution calls: a line is appended to the
\* live log only (no backup grows: each backup is a file the directory had,
\* under its old name or moved up from the name below); backups change only
\* when the live log was larger than 10 MB before the append; a rotation that
\* moves the live log to .log.1 has shifted every backup .log.i to .log.(i+1)
\* for i = 4..1, the previous .log.5 overwritten; no backup is numbered above
\* 5; and no backup is older than the backup numbered one above it.
C22_LogRotation ==
    /\ [](/\ Backups(log_dir) \subseteq 1..LOG_MAX_BACKUPS
          /\ \A i, j \in Backups(log_dir) :
                i < j => log_dir[i].mtime >= log_dir[j].mtime
          /\ \A j \in Backups(log_dir) :
                log_dir[0] # NoFile => log_dir[0].mtime >= log_dir[j].mtime)
    /\ [][/\ \A i \in Backups(log_dir') : log_dir'[i] \in {log_dir[i], log_dir[i - 1]}
          /\ (\E i \in 1..LOG_MAX_BACKUPS : log_dir'[i] # log_dir[i]) =>
                NeedsRotation(log_dir)
          /\ LiveRotated =>
                \A i \in 1..(LOG_MAX_BACKUPS - 1) :
                    log_dir[i] # NoFile => log_dir'[i + 1] = log_dir[i]
          /\ log_dir'[0] \notin {log_dir[0], NoFile} =>
                /\ log_dir'[0].mtime = log_time'
                /\ \E e \in EntrySizes :
                    log_dir'[0].size =
                        IF LiveRotated \/ log_dir[0] = NoFile
                        THEN e ELSE log_dir[0].size + e]_vars

\* five backups and a live log above the limit: the call rotated, the old
\* live log is .log.1 and the new live log holds the one line
C22_Witness ==
    /\ log_time = 1
    /\ Backups(log_dir) = 1..LOG_MAX_BACKUPS
    /\ log_dir[1] = [size |-> LOG_MAX_SIZE + 1, mtime |-> 0]
    /\ log_dir[LOG_MAX_BACKUPS].mtime = 0 - (LOG_MAX_BACKUPS - 1)
    /\ log_dir[0] = [size |-> 112, mtime |-> 1]

(***************************************************************************)
(* stop_if_incomplete.py                                                   *)
(***************************************************************************)
\* is_tommymorgan_plan(content): a section heading and a TODO or DONE marker
is_tommymorgan_plan(content) ==
    content.headers /\ (content.todo > 0 \/ content.done > 0)

\* find_plan_file(): the first readable .md file that is a plan, in the
\* current directory or one of its three parents (level 0..3).  The path it
\* returns is built on Path.cwd(), which is absolute.
stop_find_plan_file(world) ==
    [found |-> /\ world.level \in 0..3
               /\ world.readable
               /\ is_tommymorgan_plan(world),
     absolute |-> TRUE,
     dotdot |-> FALSE]

\* is_safe_path(file_path): relative, and no ".." among its parts
is_safe_path(path) == ~path.absolute /\ ~path.dotdot

\* check_completion(plan_content): int((done_count / total) * 100), 100 for a
\* plan with no marker.  For the totals of this model the float product
\* truncates to the integer quotient (it does for every total up to 8).
check_completion(content) ==
    [todo_count |-> content.todo,
     done_count |-> content.done,
     completion_percentage |->
        IF content.todo + content.done = 0 THEN 100
        ELSE (content.done * 100) \div (content.todo + content.done)]

\* make_stop_decision(completion); completion_percentage -1 stands for None.
\* The function reads its argument and nothing else.
make_stop_decision(completion) ==
    IF completion.completion_percentage = -1 THEN "allow"
    ELSE IF completion.completion_percentage < 100 THEN "block"
    ELSE "allow"

\* main(): find the plan file, check its path, read it, check its format,
\* decide, print the decision
stop_main ==
    /\ stop_result.via = "none"
    /\ LET found == stop_find_plan_file(stop_world)
           completion == check_completion(stop_world)
           none == [completion_percentage |-> -1]
           allow(warning) ==
               [via |-> "main", completion |-> -1,
                decision |-> make_stop_decision(none), stderr |-> warning]
       IN  stop_result' =
             IF ~found.found THEN allow(<<>>)
             ELSE IF ~is_safe_path(found) THEN allow(<<"unsafe_path">>)
             ELSE IF ~stop_world.readable THEN allow(<<"cannot_read">>)
             ELSE IF ~is_tommymorgan_plan(stop_world) THEN allow(<<"invalid_format">>)
             ELSE [via |-> "main",
                   completion |-> completion.completion_percentage,
                   decision |-> make_stop_decision(completion),
                   stderr |-> <<"debug">>]
    /\ UNCHANGED <<hookVars, log_dir, log_time, stop_world, transcript, resize_result,
                   plan_files, batch_size, migration, progress>>

\* make_stop_decision called on its own, as the unit tests call it, with the
\* completion of the plan while TOMMYMORGAN_ALLOW_INCOMPLETE_STOP is set or not
call_make_stop_decision ==
    /\ stop_result.via = "none"
    /\ LET completion == check_completion(stop_world)
       IN  stop_result' =
             [via |-> "make_stop_decision",
              completion |-> completion.completion_percentage,
              decision |-> make_stop_decision(completion),
              stderr |-> <<>>]
    /\ UNCHANGED <<hookVars, log_dir, log_time, stop_world, transcript, resize_result,
                   plan_files, batch_size, migration, progress>>

\* a working directory with no plan file, or one at level 0, 3 or 4 above it,
\* and the environment with the override set or not
InitStop ==
    /\ AtRest({"hook", "log", "resize", "migrate"})
    /\ stop_world \in
        [level : {-1, 0, 3, 4}, headers : BOOLEAN, todo : 0..MaxMarkers,
         done : 0..MaxMarkers, readable : BOOLEAN, override : BOOLEAN]
    /\ stop_result = [via |-> "none", completion |-> -1, decision |-> "none",
                      stderr |-> <<>>]

NextStop == stop_main \/ call_make_stop_decision

SpecStop == InitStop /\ [][NextStop]_vars

\* C23: when main discovers a plan file that holds at least one TODO marker
\* it outputs the stop decision block; it outputs allow only when no plan
\* file is found or every marker of the plan is DONE.
C23_TodoBlocks ==
    stop_result.via = "main" =>
        /\ (stop_find_plan_file(stop_world).found /\ stop_world.todo >= 1) =>
                stop_result.decision = "block"
        /\ stop_result.decision = "allow" =>
                (~stop_find_plan_file(stop_world).found \/ stop_world.todo = 0)

\* C24: with TOMMYMORGAN_ALLOW_INCOMPLETE_STOP set to true, make_stop_decision
\* returns allow for a completion below 100% and writes a warning to stderr.
C24_OverrideAllows ==
    (/\ stop_result.via = "make_stop_decision"
     /\ stop_world.override
     /\ stop_result.completion < 100) =>
        /\ stop_result.decision = "allow"
        /\ stop_result.stderr # <<>>

(***************************************************************************)
(* resize_images.py                                                        *)
(***************************************************************************)
SUPPORTED_FORMATS == {"image/png", "image/jpeg", "image/gif"}

\* int(side * (MAX_DIMENSION / longer)) in Python: both operations are IEEE
\* 754 double operations, rounded to nearest, ties to even, and int()
\* truncates.  For MAX_DIMENSION < longer and 1 <= side <= longer:
\*   - the quotient has the 53-bit mantissa m0 or m0 + 1, where
\*     m0 = floor(MAX_DIMENSION * 2^k / longer) and k = 52 + t, t the least
\*     shift with MAX_DIMENSION * 2^t >= longer; r[k] is the remainder of
\*     that division and b[k] the last bit of m0, found by long division;
\*   - when side * MAX_DIMENSION / longer is no integer, the rounding errors
\*     are far smaller than its distance to an integer: the result is the floor;
\*   - when it is an integer n, the product is n exactly if the quotient was
\*     exact or rounded up; if it was rounded down the product lies
\*     side * r[k] / (longer * 2^k) below n, and rounds back to n only if that
\*     is at most half the spacing of the doubles below n, which is
\*     2^(jj - 54) for the least jj with 2^jj >= n; otherwise int() gives n - 1.
ScaledSide(side, longer) ==
    LET n == (side * MAX_DIMENSION) \div longer
        t == CHOOSE x \in 0..8 :
                /\ MAX_DIMENSION * 2^x >= longer
                /\ x > 0 => MAX_DIMENSION * 2^(x - 1) < longer
        k == 52 + t
        r[i \in 0..k] == IF i = 0 THEN MAX_DIMENSION % longer ELSE (2 * r[i - 1]) % longer
        lastbit == (2 * r[k - 1]) \div longer
        up == 2 * r[k] > longer \/ (2 * r[k] = longer /\ lastbit = 1)
        jj == CHOOSE x \in 0..11 : 2^x >= n /\ (x > 0 => 2^(x - 1) < n)
        e == t + jj - 2
        back == IF e >= 0 THEN side * r[k] <= longer * 2^e
                ELSE side * r[k] * 2^(0 - e) <= longer
    IN  IF (side * MAX_DIMENSION) % longer # 0 THEN n
        ELSE IF r[k] = 0 \/ up \/ back THEN n
        ELSE n - 1

\* calculate_resize_dimensions(width, height)
calculate_resize_dimensions(width, height) ==
    IF width >= height
    THEN <<MAX_DIMENSION, ScaledSide(height, width)>>
    ELSE <<ScaledSide(width, height), MAX_DIMENSION>>

\* process_transcript(transcript), for the image blocks of the entry: the size
\* each block has afterwards and the notification (original and new size) of
\* each block that was resized
process_transcript(content) ==
    LET resized(b) == IF b.width >= b.height THEN b.width > MAX_DIMENSION
                      ELSE b.height > MAX_DIMENSION
        size(b) == IF resized(b) THEN calculate_resize_dimensions(b.width, b.height)
                   ELSE <<b.width, b.height>>
        RECURSIVE notes(_)
        notes(i) == IF i > Len(content) THEN <<>>
                    ELSE (IF resized(content[i])
                          THEN <<(<<content[i].width, content[i].height>> \o size(content[i]))>>
                          ELSE <<>>) \o notes(i + 1)
    IN  [sizes |-> [i \in 1..Len(content) |-> size(content[i])],
         notifications |-> notes(1)]

\* main(): skip silently when auto_resize_images is off; block the submission
\* at the first image of an unsupported format (nothing is written back);
\* otherwise write the resized images back, print the notifications, exit 0
resize_main ==
    /\ resize_result.exit = -1
    /\ LET content == transcript.content
           unchanged == [i \in 1..Len(content) |-> <<content[i].width, content[i].height>>]
           done == process_transcript(content)
       IN  resize_result' =
             IF ~transcript.auto_resize_images
             THEN [exit |-> 0, decision |-> "none", sizes |-> unchanged, stdout |-> <<>>]
             ELSE IF \E i \in 1..Len(content) : content[i].media_type \notin SUPPORTED_FORMATS
             THEN [exit |-> 0, decision |-> "block", sizes |-> unchanged,
                   stdout |-> <<"block">>]
             ELSE [exit |-> 0, decision |-> "none", sizes |-> done.sizes,
                   stdout |-> done.notifications]
    /\ UNCHANGED <<hookVars, log_dir, log_time, stop_world, stop_result, transcript,
                   plan_files, batch_size, migration, progress>>

\* sides of the images: below the limit, at it, above it
ImageSides == {1062, 2000, 2124, 2880, 5120}

\* a last transcript entry of one image block or more, PNG or WebP, with
\* auto_resize_images on or off
InitResize ==
    /\ AtRest({"hook", "log", "stop", "migrate"})
    /\ transcript \in
        [auto_resize_images : BOOLEAN,
         content : UNION {[1..n -> [media_type : {"image/png", "image/webp"},
                                    width : ImageSides, height : ImageSides]] :
                            n \in 1..MaxImages}]
    /\ resize_result = [exit |-> -1, decision |-> "none", sizes |-> <<>>, stdout |-> <<>>]

\* one run of the resize hook
SpecResize == InitResize /\ [][resize_main]_vars

\* C25: for every image of a supported format and size w x h in the last
\* transcript entry: it is resized if and only if max(w, h) > 2000 (never
\* upscaled, unchanged at exactly 2000); the resized image has its longer side
\* exactly 2000 and its shorter side floor(shorter * 2000 / longer); and in
\* every such case the hook exits 0 and the prompt is submitted.
C25_ResizeDimensions ==
    (/\ resize_result.exit # -1
     /\ transcript.auto_resize_images
     /\ \A i \in 1..Len(transcript.content) :
            transcript.content[i].media_type \in SUPPORTED_FORMATS) =>
        /\ resize_result.exit = 0
        /\ resize_result.decision = "none"
        /\ \A i \in 1..Len(transcript.content) :
            LET w == transcript.content[i].width
                h == transcript.content[i].height
            IN  resize_result.sizes[i] =
                    IF w <= MAX_DIMENSION /\ h <= MAX_DIMENSION THEN <<w, h>>
                    ELSE IF w >= h THEN <<MAX_DIMENSION, (h * MAX_DIMENSION) \div w>>
                    ELSE <<(w * MAX_DIMENSION) \div h, MAX_DIMENSION>>

(***************************************************************************)
(* migrate.py, lines 250-350: migrate_project_with_progress                *)
(***************************************************************************)
\* sorted(plans_dir.glob("*.md")): the files in the order of their names
sorted(files) ==
    LET range == {files[j] : j \in 1..Len(files)}
    IN  [j \in 1..Len(files) |->
            CHOOSE f \in range : Cardinality({g \in range : g.name < f.name}) = j - 1]

\* the progress value with the end of the batch taken as it is
batch_end(i, size, total_plans) == i + size

\* current = min(i + batch_size, total_plans)
batch_current(i, size, total_plans) ==
    IF i + size < total_plans THEN i + size ELSE total_plans

\* plan_files = sorted(...); total_plans = len(plan_files); the tracking
\* starts at zero; range(0, total_plans, batch_size) is empty for no plan
migrate_start ==
    /\ migration.pc = "start"
    /\ plan_files' = sorted(plan_files)
    /\ migration' = [migration EXCEPT
            !.pc = IF Len(plan_files) = 0 THEN "write" ELSE "batch",
            !.i = 0,
            !.batch_num = IF Len(plan_files) = 0 THEN 0 ELSE 1,
            !.k = 1]
    /\ UNCHANGED <<hookVars, log_dir, log_time, stop_world, stop_result, transcript,
                   resize_result, batch_size, progress>>

\* the body of "for plan_file in batch": a plan with scenarios is a success; a
\* plan with none, and a plan whose reading or parsing raises, is a failure
\* with its file name in errors; the loop goes on either way
process_plan ==
    /\ migration.pc = "batch"
    /\ LET plan == plan_files[migration.k]
           \* batch = plan_files[i:i + batch_size]: the slice ends with the list
           stop == IF migration.i + batch_size < Len(plan_files)
                   THEN migration.i + batch_size ELSE Len(plan_files)
       IN  migration' = [migration EXCEPT
                !.successes = IF plan.kind = "scenarios" THEN @ + 1 ELSE @,
                !.failures = IF plan.kind = "scenarios" THEN @ ELSE @ + 1,
                !.errors = IF plan.kind = "scenarios" THEN @ ELSE Append(@, plan.name),
                !.processed = Append(@, plan.name),
                !.k = @ + 1,
                !.pc = IF migration.k + 1 > stop THEN "report" ELSE "batch"]
    /\ UNCHANGED <<hookVars, log_dir, log_time, stop_world, stop_result, transcript,
                   resize_result, plan_files, batch_size, progress>>

\* after the batch: progress_callback(current, total_plans, batch_num) if a
\* callback was given; then the next batch, if range() has one
report_progress ==
    /\ migration.pc = "report"
    /\ progress' =
        IF migration.has_callback
        THEN Append(progress,
                    <<batch_current(migration.i, batch_size, Len(plan_files)),
                      Len(plan_files), migration.batch_num>>)
        ELSE progress
    /\ migration' =
        IF migration.i + batch_size < Len(plan_files)
        THEN [migration EXCEPT !.i = @ + batch_size, !.batch_num = @ + 1, !.pc = "batch"]
        ELSE [migration EXCEPT !.pc = "write"]
    /\ UNCHANGED <<hookVars, log_dir, log_time, stop_world, stop_result, transcript,
                   resize_result, plan_files, batch_size>>

\* the .feature files are written and the summary is returned
write_features ==
    /\ migration.pc = "write"
    /\ migration' = [migration EXCEPT !.pc = "done"]
    /\ UNCHANGED <<hookVars, log_dir, log_time, stop_world, stop_result, transcript,
                   resize_result, plan_files, batch_size, progress>>

\* plans/ holds up to MaxPlans files, which glob yields in any order; each has
\* scenarios, has none, or cannot be read
InitMigrate ==
    /\ AtRest({"hook", "log", "stop", "resize"})
    /\ plan_files \in
        UNION {{f \in [1..n -> [name : 1..MaxPlans,
                                kind : {"scenarios", "empty", "raises"}]] :
                    \A a, b \in 1..n : a # b => f[a].name # f[b].name} :
               n \in 0..MaxPlans}
    /\ batch_size \in 1..MaxBatch
    /\ migration \in
        [pc : {"start"}, has_callback : BOOLEAN, i : {0}, batch_num : {0}, k : {0},
         successes : {0}, failures : {0}, errors : {<<>>}, processed : {<<>>}]
    /\ progress = <<>>

NextMigrate == migrate_start \/ process_plan \/ report_progress \/ write_features

SpecMigrate == InitMigrate /\ [][NextMigrate]_vars

\* the names of the plans of the given kinds, in the order of plan_files
RECURSIVE NamesOfKind(_, _)
NamesOfKind(files, kinds) ==
    IF files = <<>> THEN <<>>
    ELSE (IF files[1].kind \in kinds THEN <<files[1].name>> ELSE <<>>)
            \o NamesOfKind(Tail(files), kinds)

\* batches of the given size needed for n plans
BatchCount(n, size) == (n + size - 1) \div size

\* C26: migrate_project_with_progress processes the sorted plan files in
\* consecutive batches of batch_size and calls progress_callback exactly once
\* after each batch, with current = min(end of the batch, total_plans): the
\* values are strictly increasing and the last one is total_plans; a plan that
\* raises or has no scenarios is recorded as a failure and the plans after it
\* are still processed.
C26_BatchedProgress ==
    migration.pc \in {"batch", "report", "write", "done"} =>
        LET total == Len(plan_files)
            n == Len(migration.processed)
        IN  /\ \A a, b \in 1..total : a < b => plan_files[a].name < plan_files[b].name
            /\ n <= total
            /\ migration.processed = [j \in 1..n |-> plan_files[j].name]
            /\ migration.errors =
                    NamesOfKind(SubSeq(plan_files, 1, n), {"empty", "raises"})
            /\ migration.failures = Len(migration.errors)
            /\ migration.successes = n - migration.failures
            /\ migration.pc = "done" => n = total
            /\ migration.has_callback =>
                /\ \A b \in 1..Len(progress) :
                        /\ progress[b] =
                            <<(IF b * batch_size < total THEN b * batch_size ELSE total),
                              total, b>>
                        /\ b > 1 => progress[b][1] > progress[b - 1][1]
                /\ migration.pc = "batch" =>
                        /\ Len(progress) = migration.batch_num - 1
                        /\ n \in (Len(progress) * batch_size)..
                                    ((Len(progress) + 1) * batch_size - 1)
                /\ migration.pc = "report" =>
                        /\ Len(progress) = migration.batch_num - 1
                        /\ n = (IF migration.batch_num * batch_size < total
                                THEN migration.batch_num * batch_size ELSE total)
                /\ migration.pc \in {"write", "done"} =>
                        /\ Len(progress) = BatchCount(total, batch_size)
                        /\ total > 0 => progress[Len(progress)][1] = total

\* three plans in batches of two, the first unreadable and the second without
\* scenarios: both batches reported, all three plans processed
C26_Witness ==
    /\ migration.pc = "done"
    /\ migration.has_callback
    /\ batch_size = 2
    /\ progress = <<<<2, 3, 1>>, <<3, 3, 2>>>>
    /\ migration.processed = <<1, 2, 3>>
    /\ migration.errors = <<1, 2>>
    /\ migration.successes = 1

====
